---------------------------- MODULE Spec2Model ----------------------------
(***************************************************************************)
(* Model of ZenPacks.zenoss.NtpMonitor: the NTP mode-6 control-message     *)
(* exchange of ntp.py (NtpPacket, NtpProtocol, NtpController) driven by    *)
(* a Twisted reactor.                                                      *)
(*                                                                         *)
(* Conventions                                                             *)
(*   - a datagram is a sequence of bytes (0..255), as on the wire;         *)
(*   - Python's None is the string "None"; a str that may be None is the   *)
(*     record [none |-> BOOLEAN, bytes |-> sequence of bytes];             *)
(*   - an offset is an integer number of microseconds: the server reports  *)
(*     milliseconds with at most three decimals and the code divides by    *)
(*     1000, so float(text) / 1000 seconds is text * 1000 microseconds     *)
(*     (binary rounding of floats is not modelled);                        *)
(*   - thresholds are microseconds as well (60.0 s = 60 * Micro).          *)
(***************************************************************************)
EXTENDS Integers, Sequences, FiniteSets, TLC

VARIABLES
    protocol,    \* the NtpProtocol object's fields
    transport,   \* the datagram transport: connected, written
    d,           \* protocol.d, the session's Deferred
    reactor,     \* the DelayedCall of timeoutCall, the reactor's error log
    controller,  \* the NtpController and the UDP port it listens on
    rx,          \* history: indices of the datagrams handed to datagramReceived
    ret,         \* the value returned by the last direct call of a pure method
    arg          \* the input of the direct calls of pure methods

vars == <<protocol, transport, d, reactor, controller, rx, ret, arg>>

None == "None"

\* ------------------------------------------------------------------ bounds

\* datagrams handed to datagramReceived in one session
MaxDatagrams == 3

\* direct calls of updateOffset on one protocol
MaxCalls == 3

\* bytes of the variable string of a READVAR request
MaxVarLen == 25

\* (peer, status) pairs in the payload of one READSTAT response
MaxPairs == 3

\* ------------------------------------------------------- program constants

STATE_OK == 0
STATE_UNKNOWN == 1
STATE_WARNING == 2
STATE_CRITICAL == 3

MAX_CM_SIZE == 468

\* microseconds in a second: the unit of offsets and thresholds of the model
Micro == 1000 * 1000

LEAP_MAP == [l \in 0..3 |-> <<"NO WARNING", "EXTRA SEC", "MISSING SEC", "ALARM">>[l + 1]]

\* NtpProtocol.timeout / warning / critical class attributes, in microseconds
DefaultWarning == 60 * Micro
DefaultCritical == 120 * Micro

\* ------------------------------------------------------------ byte helpers

Max(a, b) == IF a >= b THEN a ELSE b

Abs(x) == IF x < 0 THEN -x ELSE x

\* struct "!H": a 16-bit value as two bytes, network order
PackH(x) == <<x \div 256, x % 256>>

\* mutant of UnpackH: little-endian
UnpackHLittle(hi, lo) == lo * 256 + hi

UnpackH(hi, lo) == hi * 256 + lo

\* s[from:] of Python, from counted from 0
Drop(s, n) == IF n >= Len(s) THEN <<>> ELSE SubSeq(s, n + 1, Len(s))

\* s[:n] of Python
Take(s, n) == IF n >= Len(s) THEN s ELSE SubSeq(s, 1, n)

Zeros(n) == IF n > 0 THEN [i \in 1..n |-> 0] ELSE <<>>

\* the characters str.strip() removes: \t \n \x0b \x0c \r and space
Whitespace == {9, 10, 11, 12, 13, 32}

RECURSIVE LStrip(_)
LStrip(s) == IF s # <<>> /\ Head(s) \in Whitespace THEN LStrip(Tail(s)) ELSE s

RECURSIVE RStrip(_)
RStrip(s) ==
    IF s # <<>> /\ s[Len(s)] \in Whitespace THEN RStrip(SubSeq(s, 1, Len(s) - 1)) ELSE s

Strip(s) == RStrip(LStrip(s))

\* s.replace(c, "")
Remove(s, c) == SelectSeq(s, LAMBDA b : b # c)

\* s.split(sep) for a one-character separator: always at least one item
RECURSIVE Split(_, _)
Split(s, sep) ==
    IF \A i \in 1..Len(s) : s[i] # sep
    THEN <<s>>
    ELSE LET k == CHOOSE i \in 1..Len(s) : s[i] = sep /\ \A j \in 1..(i - 1) : s[j] # sep
         IN  <<SubSeq(s, 1, k - 1)>> \o Split(Drop(s, k), sep)

IsDigits(s) == s # <<>> /\ \A i \in 1..Len(s) : s[i] \in 48..57

RECURSIVE DigitsValue(_)
DigitsValue(s) ==
    IF s = <<>> THEN 0 ELSE DigitsValue(SubSeq(s, 1, Len(s) - 1)) * 10 + (s[Len(s)] - 48)

\* float(text) / 1000 in microseconds, for decimal text [+-]digits[.digits] with at
\* most three decimals; ok is FALSE where float() raises ValueError
ParseMillis(text) ==
    LET neg == text # <<>> /\ text[1] = 45
        body == IF text # <<>> /\ text[1] \in {43, 45} THEN Tail(text) ELSE text
        parts == Split(body, 46)
        int == parts[1]
        frac == IF Len(parts) = 2 THEN parts[2] ELSE <<>>
        fine == /\ Len(parts) <= 2
                /\ IsDigits(int)
                /\ Len(parts) = 2 => IsDigits(frac) /\ Len(frac) <= 3
        scaled == DigitsValue(int) * 1000 + DigitsValue(frac \o [i \in 1..(3 - Len(frac)) |-> 48])
    IN  IF fine THEN [ok |-> TRUE, value |-> IF neg THEN -scaled ELSE scaled]
        ELSE [ok |-> FALSE, value |-> 0]

\* the text "offset", the default of getvar and the key looked up by getPeerOffset
OffsetKey == <<111, 102, 102, 115, 101, 116>>


\* ------------------------------------------------------------- NtpPacket

\* a str attribute that may be None
NoneStr == [none |-> TRUE, bytes |-> <<>>]

Str(b) == [none |-> FALSE, bytes |-> b]

\* Python truthiness of a str that may be None
Truthy(s) == ~s.none /\ s.bytes # <<>>

\* NtpPacket.__init__
NtpPacket(version, opcode, sequence) ==
    [leap |-> 0, version |-> version, opcode |-> opcode, sequence |-> sequence,
     status |-> 0, mode |-> 6, assoc |-> 0, offset |-> 0, count |-> 0,
     errorBit |-> 0, data |-> NoneStr, peerData |-> NoneStr]

\* struct.pack("!B B 5H", ...): the 12-byte header; struct.error when a field does
\* not fit its width
PackFits(p) ==
    /\ p.opcode \in 0..255
    /\ \A x \in {p.sequence, p.status, p.assoc, p.offset, p.count} : x \in 0..65535

PackBase(p) ==
    <<(p.leap % 4) * 64 + (p.version % 8) * 8 + (p.mode % 8), p.opcode>>
        \o PackH(p.sequence) \o PackH(p.status) \o PackH(p.assoc)
        \o PackH(p.offset) \o PackH(p.count)

\* the result of a method that returns bytes or raises NtpException
Raised(msg) == [ok |-> FALSE, err |-> msg, bytes |-> <<>>]

Packed(b) == [ok |-> TRUE, err |-> "", bytes |-> b]

\* mutant of toDataReadstat: the version is not checked
toDataReadstatAnyVersion(p) ==
    IF PackFits(p) THEN Packed(PackBase(p)) ELSE Raised("Internal packet parsing error")

toDataReadstat(p) ==
    IF p.version = 2
    THEN IF PackFits(p) THEN Packed(PackBase(p)) ELSE Raised("Internal packet parsing error")
    ELSE Raised("Version of NTP protocol is not implemented")

\* mutant of Padding: a full block of zero bytes after a multiple of 12
PaddingBlock(count) == Zeros(12 - (count % 12))

\* the zero bytes appended after the data
Padding(count) == IF count % 12 # 0 THEN Zeros(12 - (count - 12 * (count \div 12))) ELSE <<>>

toDataReadvar(p) ==
    IF p.version = 2
    THEN IF PackFits(p) /\ ~p.data.none
         THEN Packed(PackBase(p)
                     \o Take(p.data.bytes \o Zeros(p.count - Len(p.data.bytes)), p.count)
                     \o Padding(p.count))
         ELSE Raised("Invalid packet received from NTP server")
    ELSE Raised("Version of NTP protocol is not implemented")

\* mutant of fromData: a short datagram is read as if zero bytes followed it
fromDataPadded(data) ==
    LET full == data \o Zeros(12 - Len(data))
        count == UnpackH(full[11], full[12])
    IN  [ok |-> TRUE, err |-> "",
         packet |-> [leap |-> (full[1] \div 64) % 4,
                     version |-> (full[1] \div 8) % 8,
                     mode |-> full[1] % 8,
                     opcode |-> full[2],
                     sequence |-> UnpackH(full[3], full[4]),
                     status |-> UnpackH(full[5], full[6]),
                     assoc |-> UnpackH(full[7], full[8]),
                     offset |-> UnpackH(full[9], full[10]),
                     count |-> count,
                     errorBit |-> 0,
                     data |-> NoneStr,
                     peerData |-> IF count >= 4 THEN Str(Drop(full, 12)) ELSE NoneStr]]

\* NtpPacket.fromData: ok is FALSE where it raises NtpException
fromData(data) ==
    IF Len(data) < 12
    THEN [ok |-> FALSE, err |-> "Invalid packet received from NTP server",
          packet |-> NtpPacket(2, 1, 1)]
    ELSE LET count == UnpackH(data[11], data[12])
         IN  [ok |-> TRUE, err |-> "",
              packet |-> [leap |-> (data[1] \div 64) % 4,
                          version |-> (data[1] \div 8) % 8,
                          mode |-> data[1] % 8,
                          opcode |-> data[2],
                          sequence |-> UnpackH(data[3], data[4]),
                          status |-> UnpackH(data[5], data[6]),
                          assoc |-> UnpackH(data[7], data[8]),
                          offset |-> UnpackH(data[9], data[10]),
                          count |-> count,
                          errorBit |-> 0,
                          data |-> NoneStr,
                          peerData |-> IF count >= 4 THEN Str(Drop(data, 12)) ELSE NoneStr]]

\* dict.update: the entries of b added to a, b's winning
Update(a, b) ==
    [k \in DOMAIN a \cup DOMAIN b |-> IF k \in DOMAIN b THEN b[k] ELSE a[k]]

EmptyDict == [k \in {} |-> 0]

\* the indices range(0, len(unpacked) / 2, 2) of the loop of NtpPacket.peers
PeerIndices(n) == {i \in 0..(n - 1) : i % 2 = 0 /\ i < n \div 2}

\* NtpPacket.peers: the dict of peer -> status; ok is FALSE where it raises
peers(p) ==
    IF Truthy(p.peerData)
    THEN LET n == p.count \div 2
             b == p.peerData.bytes
             unpacked == [i \in 0..(n - 1) |-> UnpackH(b[2 * i + 1], b[2 * i + 2])]
         IN  IF Len(b) # 2 * n
             THEN [ok |-> FALSE, peers |-> EmptyDict]
             ELSE [ok |-> TRUE,
                   peers |-> [k \in {unpacked[i] : i \in PeerIndices(n)} |->
                                 unpacked[(CHOOSE i \in PeerIndices(n) :
                                              /\ unpacked[i] = k
                                              /\ \A j \in PeerIndices(n) :
                                                    unpacked[j] = k => j <= i) + 1]]]
    ELSE [ok |-> TRUE, peers |-> EmptyDict]

\* hasError reading bit 5 of the opcode byte, the more bit
hasErrorBit5(p) == (p.opcode \div 32) % 2 = 1

hasError(p) == (p.opcode \div 64) % 2 = 1

hasAlarm(p) == p.leap = 3

hasWrongSize(p) == p.count > MAX_CM_SIZE

hasMorePackets(p) == (p.opcode \div 32) % 2 = 1

\* isResponse reading bit 7 of the opcode byte
isResponseBit7(p) == (p.opcode \div 128) % 2 = 1

isResponse(p) == (p.opcode \div 2) % 2 = 1

\* NtpPacket.getPeerOffset: raised names the exception that escapes it, none says
\* that it returns None, value is the float returned (microseconds)
NoOffset == [raised |-> None, none |-> TRUE, value |-> 0]

getPeerOffset(p) ==
    IF Truthy(p.peerData)
    THEN LET peerData == Remove(Strip(Take(p.peerData.bytes, p.count)), 32)
             items == [i \in 1..Len(Split(peerData, 44)) |-> Split(Split(peerData, 44)[i], 61)]
             keyed == {i \in 1..Len(items) : items[i][1] = OffsetKey}
             tmpOffset == items[CHOOSE i \in keyed : \A j \in keyed : j <= i][2]
         IN  IF \E i \in 1..Len(items) : Len(items[i]) # 2
             THEN [raised |-> "ValueError", none |-> TRUE, value |-> 0]
             ELSE IF keyed = {} \/ tmpOffset = <<>>
                  THEN NoOffset
                  ELSE IF ParseMillis(tmpOffset).ok
                       THEN [raised |-> None, none |-> FALSE,
                             value |-> ParseMillis(tmpOffset).value]
                       ELSE [raised |-> "ValueError", none |-> TRUE, value |-> 0]
    ELSE NoOffset

\* setPeerToRequest and setDataToRequest
setPeerToRequest(p, peer) == [p EXCEPT !.assoc = peer]

setDataToRequest(p, requestDetails) ==
    [p EXCEPT !.data = Str(requestDetails), !.count = Len(requestDetails)]

\* ------------------------------------------------- Deferred, reactor, port

\* The world the handlers act on: the five objects of a session.
World == [p |-> protocol, t |-> transport, d |-> d, r |-> reactor, c |-> controller]

NoData ==
    [offset |-> 0, offsetResult |-> STATE_UNKNOWN, status |-> STATE_OK,
     syncSource |-> FALSE, liAlarm |-> FALSE, warning |-> 0, critical |-> 0]

NoOutcome == [kind |-> "none", msg |-> "", data |-> NoData]

\* an exception that escapes a handler: the reactor logs it and goes on
Unhandled(w, exc) == [w EXCEPT !.r.unhandled = @ \cup {exc}]

\* Port.stopListening(): reading stops at once, the socket is closed by the
\* reactor's next iteration (ConnectionLost)
stopListening(w) ==
    IF w.c.socket = "open" THEN [w EXCEPT !.c.socket = "stopping"] ELSE w

\* NtpController.success: self.port is None until start() has returned
success(w) ==
    IF w.c.port = None
    THEN [w EXCEPT !.d.chain = "AttributeError"]
    ELSE [stopListening(w) EXCEPT !.d.chain = "success"]

\* mutant of failure: the port is left listening
failureNoStop(w) == [w EXCEPT !.d.chain = "failure"]

\* NtpController.failure
failure(w) ==
    IF w.c.port = None
    THEN [w EXCEPT !.d.chain = "AttributeError"]
    ELSE [stopListening(w) EXCEPT !.d.chain = "failure"]

\* the callbacks of protocol.d are the controller's success and failure
runCallbacks(w) == IF w.d.outcome.kind = "result" THEN success(w) ELSE failure(w)

\* the session attaches them once NtpController.start has returned; on a Deferred
\* that has fired already they run at once
addCallbacks(w) ==
    LET attached == [w EXCEPT !.d.attached = TRUE]
    IN  IF w.d.called THEN runCallbacks(attached) ELSE attached

\* mutant of Fire: a Deferred that accepts a second firing
FireAgain(w, outcome) ==
    runCallbacks([w EXCEPT !.d.called = TRUE, !.d.outcome = outcome, !.d.fired = @ + 1])

\* Deferred.callback / Deferred.errback: a second firing raises AlreadyCalledError,
\* unless the Deferred was cancelled, which swallows the next firing
Fire(w, outcome) ==
    IF w.d.called
    THEN IF w.d.suppress
         THEN [w EXCEPT !.d.suppress = FALSE]
         ELSE Unhandled(w, "AlreadyCalledError")
    ELSE LET fired == [w EXCEPT !.d.called = TRUE, !.d.outcome = outcome,
                                !.d.fired = @ + 1]
         IN  IF w.d.attached THEN runCallbacks(fired) ELSE fired

\* self.d.errback(NtpException(msg))
errback(w, msg) == Fire(w, [kind |-> "error", msg |-> msg, data |-> NoData])

\* self.d.callback(data)
callback(w, data) == Fire(w, [kind |-> "result", msg |-> "", data |-> data])

\* self.timeoutCall = reactor.callLater(self.timeout, self.timeoutHandler): a
\* DelayedCall still active when the attribute is overwritten stays scheduled
callLater(w) ==
    [w EXCEPT !.r.timeoutCall = "active",
              !.r.orphans = IF w.r.timeoutCall = "active" THEN @ + 1 ELSE @,
              !.r.armed = @ + 1]

\* self.transport.write(data)
write(w, data) == [w EXCEPT !.t.written = Append(@, data)]

\* ------------------------------------------------------------ NtpProtocol

\* mutant of updateOffset: a candidate of equal magnitude is adopted as well
updateOffsetTies(p, tmpOffset) ==
    IF p.offsetResult = STATE_UNKNOWN \/ Abs(tmpOffset) <= Abs(p.offset)
    THEN [p EXCEPT !.offset = tmpOffset, !.offsetResult = STATE_OK]
    ELSE p

updateOffset(p, tmpOffset) ==
    IF p.offsetResult = STATE_UNKNOWN \/ Abs(tmpOffset) < Abs(p.offset)
    THEN [p EXCEPT !.offset = tmpOffset, !.offsetResult = STATE_OK]
    ELSE p

\* mutant of getProcessedOffset: the magnitude of the offset is compared
getProcessedOffsetAbs(p) ==
    IF p.offsetResult = STATE_UNKNOWN THEN STATE_UNKNOWN
    ELSE IF Abs(p.offset) > p.critical THEN STATE_CRITICAL
    ELSE IF Abs(p.offset) > p.warning THEN STATE_WARNING
    ELSE STATE_OK

getProcessedOffset(p) ==
    IF p.offsetResult = STATE_UNKNOWN THEN STATE_UNKNOWN
    ELSE IF p.offset > p.critical THEN STATE_CRITICAL
    ELSE IF p.offset > p.warning THEN STATE_WARNING
    ELSE STATE_OK

getMaxStatus(p) == Max(p.status, p.offsetResult)

\* mutant of getClockStatus: a two-bit mask
getClockStatusNarrow(peerStatus) == (peerStatus \div 256) % 4

getClockStatus(peerStatus) == (peerStatus \div 256) % 8

getResult(p) ==
    [offset |-> p.offset, offsetResult |-> p.offsetResult, status |-> p.status,
     syncSource |-> p.syncSource, liAlarm |-> p.liAlarm,
     warning |-> p.warning, critical |-> p.critical]

updateReadstatStatus(p) ==
    LET p1 == IF ~p.syncSource THEN [p EXCEPT !.status = STATE_WARNING] ELSE p
    IN  IF p1.liAlarm THEN [p1 EXCEPT !.status = STATE_WARNING] ELSE p1

\* mutant of checkCandidates: an included peer (clock select 4) counts as a
\* synchronization source
checkCandidatesIncluded(p) ==
    LET sync == \E peer \in DOMAIN p.peersToCheck : getClockStatus(p.peersToCheck[peer]) >= 4
    IN  updateReadstatStatus(
            IF sync THEN [p EXCEPT !.minPeerSource = 6, !.syncSource = TRUE] ELSE p)

checkCandidates(p) ==
    LET sync == \E peer \in DOMAIN p.peersToCheck : getClockStatus(p.peersToCheck[peer]) = 6
    IN  updateReadstatStatus(
            IF sync THEN [p EXCEPT !.minPeerSource = 6, !.syncSource = TRUE] ELSE p)

sendReadstatRequest(w) ==
    LET packet == NtpPacket(w.p.version, 1, w.p.sequenceCounter)
        data == toDataReadstat(packet)
    IN  IF ~data.ok THEN errback(w, data.err)
        ELSE callLater(write(w, data.bytes))

\* mutant of startProtocol: the host is not checked
startProtocolNoCheck(w) == sendReadstatRequest([w EXCEPT !.t.connected = TRUE])

startProtocol(w) ==
    IF w.p.host = None
    THEN errback(w, "Host is not specified")
    ELSE sendReadstatRequest([w EXCEPT !.t.connected = TRUE])

\* mutant of timeoutHandler: the timeout is only logged
timeoutHandlerQuiet(w) == w

timeoutHandler(w) == errback(w, "Timeout. No response from NTP server")

connectionRefused(w) == errback(w, "Connection refused")

\* mutant of sendReadvarRequest: the request always names the variable "offset"
sendReadvarRequestOffset(w) ==
    LET packet == setDataToRequest(
                      setPeerToRequest(NtpPacket(w.p.version, 2, w.p.sequenceCounter),
                                       w.p.currentPeer),
                      OffsetKey)
        data == toDataReadvar(packet)
    IN  IF ~data.ok THEN errback(w, data.err)
        ELSE callLater(write(w, data.bytes))

\* sendReadvarRequest that names "offset" again for the requests to come
sendReadvarRequestAgain(w) ==
    LET packet == setDataToRequest(
                      setPeerToRequest(NtpPacket(w.p.version, 2, w.p.sequenceCounter),
                                       w.p.currentPeer),
                      w.p.getvar)
        data == toDataReadvar(packet)
    IN  IF ~data.ok THEN errback(w, data.err)
        ELSE callLater(write([w EXCEPT !.p.getvar = OffsetKey], data.bytes))

sendReadvarRequest(w) ==
    LET packet == setDataToRequest(
                      setPeerToRequest(NtpPacket(w.p.version, 2, w.p.sequenceCounter),
                                       w.p.currentPeer),
                      w.p.getvar)
        data == toDataReadvar(packet)
    IN  IF ~data.ok THEN errback(w, data.err)
        ELSE callLater(write(w, data.bytes))

\* mutant of controlReadvarExchange: with an empty table the statuses are set but
\* the Result is not delivered
controlReadvarExchangeSilent(w) ==
    IF DOMAIN w.p.peersToCheck # {}
    THEN { LET popped == [w EXCEPT !.p.peersToCheck =
                                      [k \in DOMAIN w.p.peersToCheck \ {peer} |->
                                          w.p.peersToCheck[k]]]
           IN  IF getClockStatus(w.p.peersToCheck[peer]) >= w.p.minPeerSource
               THEN sendReadvarRequest([popped EXCEPT !.p.currentPeer = peer])
               ELSE popped
           : peer \in DOMAIN w.p.peersToCheck }
    ELSE LET p1 == [w.p EXCEPT !.status = getProcessedOffset(w.p)]
         IN  {[w EXCEPT !.p = [p1 EXCEPT !.status = getMaxStatus(p1)]]}

\* dict.popitem() takes an arbitrary entry: one resulting world per entry
controlReadvarExchange(w) ==
    IF DOMAIN w.p.peersToCheck # {}
    THEN { LET popped == [w EXCEPT !.p.peersToCheck =
                                      [k \in DOMAIN w.p.peersToCheck \ {peer} |->
                                          w.p.peersToCheck[k]]]
           IN  IF getClockStatus(w.p.peersToCheck[peer]) >= w.p.minPeerSource
               THEN sendReadvarRequest([popped EXCEPT !.p.currentPeer = peer])
               ELSE popped
           : peer \in DOMAIN w.p.peersToCheck }
    ELSE LET p1 == [w.p EXCEPT !.status = getProcessedOffset(w.p)]
             p2 == [p1 EXCEPT !.status = getMaxStatus(p1)]
         IN  {callback([w EXCEPT !.p = p2], getResult(p2))}

InvalidPacket == "Invalid packet received from NTP server"

processReadstatResponse(w, data) ==
    LET parsed == fromData(data)
        packet == parsed.packet
        alarmed == IF hasAlarm(packet) THEN [w EXCEPT !.p.liAlarm = TRUE] ELSE w
        found == peers(packet)
        merged == [alarmed EXCEPT !.p.peersToCheck = Update(@, found.peers)]
        last == [merged EXCEPT !.p.readstat = FALSE,
                               !.p.sequenceCounter = @ + 1]
    IN  IF ~parsed.ok THEN {errback(w, parsed.err)}
        ELSE IF hasWrongSize(packet) THEN {errback(w, InvalidPacket)}
        ELSE IF packet.sequence # w.p.sequenceCounter THEN {errback(w, InvalidPacket)}
        ELSE IF hasError(packet) THEN {errback(w, InvalidPacket)}
        ELSE IF packet.leap \notin DOMAIN LEAP_MAP THEN {errback(w, InvalidPacket)}
        ELSE IF ~found.ok THEN {errback(alarmed, InvalidPacket)}
        ELSE IF ~hasMorePackets(packet)
             THEN controlReadvarExchange([last EXCEPT !.p = checkCandidates(last.p)])
             ELSE {merged}

processReadvarResponse(w, data) ==
    LET parsed == fromData(data)
        packet == parsed.packet
        whole == [packet EXCEPT !.peerData = Str(w.p.dataQueue \o packet.peerData.bytes),
                                !.count = @ + w.p.dataQueueCtr]
        cleared == [w EXCEPT !.p.dataQueue = <<>>, !.p.dataQueueCtr = 0]
        tmpOffset == getPeerOffset(whole)
    IN  IF ~parsed.ok THEN {errback(w, parsed.err)}
        ELSE IF hasWrongSize(packet) THEN {errback(w, InvalidPacket)}
        ELSE IF packet.sequence # w.p.sequenceCounter THEN {errback(w, InvalidPacket)}
        ELSE IF hasError(packet)
             THEN IF w.p.getvar # <<>>
                  THEN {sendReadvarRequest([w EXCEPT !.p.getvar = <<>>])}
                  ELSE {errback(w, InvalidPacket)}
        ELSE IF ~isResponse(packet) THEN {errback(w, InvalidPacket)}
        ELSE IF packet.peerData.none THEN {Unhandled(w, "TypeError")}
        ELSE IF hasMorePackets(packet)
             THEN {[w EXCEPT !.p.dataQueue = @ \o packet.peerData.bytes,
                             !.p.dataQueueCtr = @ + packet.count]}
        ELSE IF tmpOffset.raised # None THEN {Unhandled(cleared, tmpOffset.raised)}
        ELSE IF ~tmpOffset.none /\ tmpOffset.value # 0
             THEN controlReadvarExchange(
                      [cleared EXCEPT !.p = updateOffset(@, tmpOffset.value)])
             ELSE controlReadvarExchange(cleared)

\* datagramReceived: before the first request self.timeoutCall is None
\* datagramReceived without the cancellation of the timer
datagramReceivedArmed(w, data) ==
    IF w.r.timeoutCall = None THEN {Unhandled(w, "AttributeError")}
    ELSE IF w.p.readstat THEN processReadstatResponse(w, data)
         ELSE processReadvarResponse(w, data)

datagramReceived(w, data) ==
    IF w.r.timeoutCall = None THEN {Unhandled(w, "AttributeError")}
    ELSE LET w1 == IF w.r.timeoutCall = "active"
                   THEN [w EXCEPT !.r.timeoutCall = "cancelled"]
                   ELSE w
         IN  IF w1.p.readstat THEN processReadstatResponse(w1, data)
             ELSE processReadvarResponse(w1, data)

\* ------------------------------------------------------ the server's datagrams

\* a datagram as a server writes it: header, count bytes of payload, padding
Response(leap, opcode, sequence, status, assoc, count, payload) ==
    PackBase([leap |-> leap, version |-> 2, mode |-> 6, opcode |-> opcode,
              sequence |-> sequence, status |-> status, assoc |-> assoc,
              offset |-> 0, count |-> count])
        \o payload

\* peer 26611 (0x67f3) with status 38490 (0x965a, clock select 6), and
\* peer 26612 (0x67f4) with status 37924 (0x9424, clock select 4)
PeerA == 26611
StatusA == 38490
PeerB == PeerA + 1
StatusB == 148 * 256 + 36

\* "offset=2.063\r\n"
TextOffset2063 == OffsetKey \o <<61, 50, 46, 48, 54, 51, 13, 10>>

\* the READSTAT response of testExchange: sequence 1, one peer, last fragment
ReadstatTest ==
    Response(0, 129, 1, 1560, 0, 4, PackH(PeerA) \o PackH(StatusA))

\* the READVAR response of testExchange: sequence 2, peer 26611, "offset=2.063\r\n"
ReadvarTest ==
    Response(0, 130, 2, StatusA, PeerA, 14, TextOffset2063 \o <<0, 0>>)

\* a READSTAT fragment with the more bit: peer B
ReadstatMore ==
    Response(0, 161, 1, 1560, 0, 4, PackH(PeerB) \o PackH(StatusB))

\* a last READSTAT fragment with leap indicator 3 (alarm): peer A
ReadstatAlarm ==
    Response(3, 129, 1, 1560, 0, 4, PackH(PeerA) \o PackH(StatusA))

\* a last READSTAT fragment without peers
ReadstatEmpty == Response(0, 129, 1, 1560, 0, 0, <<>>)

\* a last READSTAT fragment whose only peer has clock select 4
ReadstatNoSync ==
    Response(0, 129, 1, 1560, 0, 4, PackH(PeerB) \o PackH(StatusB))

\* a READVAR response with the error bit
ReadvarError == Response(0, 194, 2, StatusA, PeerA, 0, <<>>)

\* a READVAR fragment with the more bit: "offset=", padded to 8 bytes
ReadvarMore ==
    Response(0, 162, 2, StatusA, PeerA, 7, OffsetKey \o <<61, 0>>)

\* "offset=-0.05\r\n": a READVAR response with a small negative offset
ReadvarSmall ==
    Response(0, 130, 2, StatusB, PeerB, 14,
             OffsetKey \o <<61, 45, 48, 46, 48, 53, 13, 10, 0, 0>>)

\* a datagram shorter than the header
Short == <<22, 129>>

\* a READVAR response to a request that was never sent (sequence 3)
ReadvarStale ==
    Response(0, 130, 3, StatusA, PeerA, 14, TextOffset2063 \o <<0, 0>>)

\* "offset=136.0\r\n": a READVAR response of peer A with an offset of 0.136 s
Readvar136 ==
    Response(0, 130, 2, StatusA, PeerA, 14,
             OffsetKey \o <<61, 49, 51, 54, 46, 48, 13, 10, 0, 0>>)

\* an empty datagram
Short0 == <<>>

\* the READSTAT response of testExchange cut after 11 bytes
Short11 == Take(ReadstatTest, 11)

\* the READSTAT response of testExchange cut after its header: count 4, no payload
ReadstatCut == Take(ReadstatTest, 12)

\* a last READSTAT fragment that declares two pairs (count 8) and carries one
ReadstatTruncated ==
    Response(0, 129, 1, 1560, 0, 8, PackH(PeerA) \o PackH(StatusA))

\* the READVAR response of testExchange cut after "offset=2.063": count 14, 12
\* bytes of payload
ReadvarTruncated == Take(ReadvarTest, 24)

\* "offset\r\n": a READVAR response whose only item has no "="
ReadvarBadItem ==
    Response(0, 130, 2, StatusA, PeerA, 8, OffsetKey \o <<13, 10>>)

\* "offset=abc\r\n": a READVAR response whose offset is not a number
ReadvarBadNumber ==
    Response(0, 130, 2, StatusA, PeerA, 12, OffsetKey \o <<61, 97, 98, 99, 13, 10>>)

\* "offset=2.063,\r\n": a READVAR response with an empty item after the comma
ReadvarEmptyItem ==
    Response(0, 130, 2, StatusA, PeerA, 15,
             OffsetKey \o <<61, 50, 46, 48, 54, 51, 44, 13, 10, 0>>)

\* peer D with clock select 2 (status 0x925a), below every minPeerSource
PeerD == PeerA + 3
StatusD == 146 * 256 + 90

\* a last READSTAT fragment whose only peer is D
ReadstatOutlier ==
    Response(0, 129, 1, 1560, 0, 4, PackH(PeerD) \o PackH(StatusD))

\* READSTAT responses with the peer of testExchange that are to be refused: one
\* declaring a count of 469, one with sequence 2, one with the error bit
ReadstatBig ==
    Response(0, 129, 1, 1560, 0, MAX_CM_SIZE + 1, PackH(PeerA) \o PackH(StatusA))

ReadstatWrongSequence ==
    Response(0, 129, 2, 1560, 0, 4, PackH(PeerA) \o PackH(StatusA))

ReadstatError ==
    Response(0, 193, 1, 1560, 0, 4, PackH(PeerA) \o PackH(StatusA))

\* a READSTAT fragment with the more bit and two pairs: peers B and D
ReadstatMorePairs ==
    Response(0, 161, 1, 1560, 0, 8,
             PackH(PeerB) \o PackH(StatusB) \o PackH(PeerD) \o PackH(StatusD))

\* "offset=2.063\r\n" with sequence 2 under the opcode byte of a READSTAT
\* response (0x81), in which bit 1 is clear
ReadvarNotResponse ==
    Response(0, 129, 2, StatusA, PeerA, 14, TextOffset2063 \o <<0, 0>>)

\* the last READVAR fragment after ReadvarMore: "2.063\r\n", padded to 8 bytes
ReadvarRest ==
    Response(0, 130, 2, StatusA, PeerA, 7, <<50, 46, 48, 54, 51, 13, 10, 0>>)

\* "offset=0.000\r\n": a READVAR response with an offset of exactly 0
ReadvarZero ==
    Response(0, 130, 2, StatusA, PeerA, 14,
             OffsetKey \o <<61, 48, 46, 48, 48, 48, 13, 10, 0, 0>>)

\* READVAR responses that declare count 0 and carry no payload: a last fragment
\* and a fragment with the more bit
ReadvarEmpty == Response(0, 130, 2, StatusA, PeerA, 0, <<>>)

ReadvarMoreEmpty == Response(0, 162, 2, StatusA, PeerA, 0, <<>>)

\* a last READSTAT fragment with three pairs, of which the loop of peers() reads
\* the first two: peers B and B + 1 (peer C), both with clock select 4
ReadstatThree ==
    Response(0, 129, 1, 1560, 0, 12,
             PackH(PeerB) \o PackH(StatusB) \o PackH(PeerB + 1) \o PackH(StatusB)
                 \o PackH(PeerD) \o PackH(StatusD))

Datagrams ==
    <<ReadstatTest, ReadvarTest, ReadstatMore, ReadstatAlarm, ReadstatEmpty,
      ReadstatNoSync, ReadvarError, ReadvarMore, ReadvarSmall, Short, ReadvarStale,
      Readvar136, Short0, Short11, ReadstatCut, ReadstatTruncated, ReadvarTruncated,
      ReadvarBadItem, ReadvarBadNumber, ReadvarEmptyItem, ReadstatOutlier,
      ReadstatBig, ReadstatWrongSequence, ReadstatError, ReadstatMorePairs,
      ReadvarNotResponse, ReadvarRest, ReadvarZero, ReadvarEmpty, ReadvarMoreEmpty,
      ReadstatThree>>

\* the index of a datagram in Datagrams
Ix(data) == CHOOSE i \in 1..Len(Datagrams) : Datagrams[i] = data

\* what the server of a plain session may send
ExchangeDatagrams ==
    {Ix(ReadstatTest), Ix(ReadvarTest), Ix(ReadstatMore), Ix(ReadstatAlarm),
     Ix(ReadstatEmpty), Ix(ReadstatNoSync), Ix(ReadvarError), Ix(ReadvarMore),
     Ix(ReadvarSmall), Ix(Short), Ix(ReadvarStale)}

\* what arrives from a server whose datagrams may be cut short
DamagedDatagrams ==
    {Ix(ReadstatTest), Ix(ReadvarTest), Ix(ReadstatMore), Ix(Short0), Ix(Short),
     Ix(Short11), Ix(ReadstatCut), Ix(ReadstatTruncated), Ix(ReadvarTruncated)}

\* what arrives from a server some of whose READSTAT responses are to be refused
RefusedDatagrams ==
    {Ix(ReadstatTest), Ix(ReadstatMore), Ix(ReadvarTest), Ix(Short), Ix(ReadstatBig),
     Ix(ReadstatWrongSequence), Ix(ReadstatError)}

\* what a server sends whose peer table comes in fragments of one or two pairs
FragmentDatagrams ==
    {Ix(ReadstatMore), Ix(ReadstatMorePairs), Ix(ReadstatTest), Ix(ReadstatNoSync),
     Ix(ReadvarTest)}

\* what a server sends whose READVAR responses come in fragments, empty, with an
\* offset of 0, with the error bit or under another opcode
VariableDatagrams ==
    {Ix(ReadstatTest), Ix(ReadvarTest), Ix(ReadvarError), Ix(ReadvarNotResponse),
     Ix(ReadvarMore), Ix(ReadvarRest), Ix(ReadvarZero), Ix(ReadvarEmpty),
     Ix(ReadvarMoreEmpty)}

\* what a server with one or two qualifying peers sends, whose READVAR responses
\* may carry the error bit or the more bit
FallbackDatagrams ==
    {Ix(ReadstatThree), Ix(ReadstatTest), Ix(ReadvarError), Ix(ReadvarTest),
     Ix(ReadvarMore), Ix(ReadvarRest)}

\* what arrives from a server whose READVAR payload may be malformed
MalformedDatagrams ==
    {Ix(ReadstatTest), Ix(ReadvarTest), Ix(ReadvarMore), Ix(ReadvarBadItem),
     Ix(ReadvarBadNumber), Ix(ReadvarEmptyItem)}

\* what a server with peer A (clock select 6, offset 0.136 s) and peer B (clock
\* select 4) may send: its table in one fragment each, and READVAR responses; or
\* a table of peer D alone (clock select 2)
SelectionDatagrams ==
    {Ix(ReadstatMore), Ix(ReadstatTest), Ix(ReadstatNoSync), Ix(Readvar136),
     Ix(ReadvarTest), Ix(ReadstatOutlier)}

\* ------------------------------------------------------------------ Init

Hosts == {None, "127.0.0.1"}

Versions == {2, 3}

\* (warning, critical) as the constructor parsed them: the defaults 60 s / 120 s,
\* and 1 ms / 2 ms and 2 ms / 3 ms around the offset of ReadvarTest
Thresholds ==
    {<<DefaultWarning, DefaultCritical>>, <<1000, 2000>>, <<2000, 3000>>}

NoPeer == -1

\* NtpProtocol.__init__
NtpProtocol(host, version, warning, critical) ==
    [host |-> host, version |-> version, warning |-> warning, critical |-> critical,
     peersToCheck |-> EmptyDict, readstat |-> TRUE, sequenceCounter |-> 1,
     getvar |-> OffsetKey, minPeerSource |-> 4, currentPeer |-> NoPeer,
     status |-> STATE_OK, offsetResult |-> STATE_UNKNOWN, offset |-> 0,
     syncSource |-> FALSE, liAlarm |-> FALSE, dataQueue |-> <<>>, dataQueueCtr |-> 0]

\* the objects around a protocol before NtpController.start
InitAround ==
    /\ transport = [connected |-> FALSE, written |-> <<>>]
    /\ d = [called |-> FALSE, suppress |-> FALSE, outcome |-> NoOutcome,
            attached |-> FALSE, chain |-> None, fired |-> 0]
    /\ reactor = [timeoutCall |-> None, orphans |-> 0, armed |-> 0, unhandled |-> {}]
    /\ controller = [port |-> None, socket |-> "none", opened |-> 0, started |-> FALSE]
    /\ rx = <<>>
    /\ ret = <<>>

\* no direct call is made on the protocol of a session
NoArg == <<>>

Init ==
    /\ \E host \in Hosts, version \in Versions, th \in Thresholds :
          protocol = NtpProtocol(host, version, th[1], th[2])
    /\ InitAround
    /\ arg = NoArg

\* --------------------------------------------------------------- actions

Become(w) ==
    /\ protocol' = w.p
    /\ transport' = w.t
    /\ d' = w.d
    /\ reactor' = w.r
    /\ controller' = w.c

\* NtpController.start: listenUDP binds the socket and calls startProtocol before
\* it returns the port that start() stores in self.port; then the session's
\* callbacks are attached
Start ==
    /\ ~controller.started
    /\ LET bound == [World EXCEPT !.c.socket = "open", !.c.opened = @ + 1,
                                  !.c.started = TRUE]
           run == startProtocol(bound)
       IN  Become(addCallbacks([run EXCEPT !.c.port = "port"]))
    /\ UNCHANGED <<rx, ret, arg>>

\* the reactor reads a datagram from the socket and hands it to the protocol;
\* Port.doRead goes on reading after stopListening until the socket is closed
DeliverOf(server) ==
    /\ controller.socket \in {"open", "stopping"}
    /\ Len(rx) < MaxDatagrams
    /\ \E i \in server :
          /\ \E w \in datagramReceived(World, Datagrams[i]) : Become(w)
          /\ rx' = Append(rx, i)
    /\ UNCHANGED <<ret, arg>>

Deliver == DeliverOf(ExchangeDatagrams)

\* the DelayedCall of timeoutCall comes due
TimeoutFires ==
    /\ reactor.timeoutCall = "active"
    /\ Become(timeoutHandler([World EXCEPT !.r.timeoutCall = "called"]))
    /\ UNCHANGED <<rx, ret, arg>>

\* the connected socket reports ECONNREFUSED
ConnectionRefused ==
    /\ transport.connected
    /\ controller.socket \in {"open", "stopping"}
    /\ Become(connectionRefused(World))
    /\ UNCHANGED <<rx, ret, arg>>

\* the host cancels the session: Deferred.cancel() on a Deferred not yet fired
Cancel ==
    /\ controller.started
    /\ ~d.called
    /\ Become(errback([World EXCEPT !.d.suppress = TRUE], "CancelledError"))
    /\ UNCHANGED <<rx, ret, arg>>

\* the reactor closes the socket of a port that stopped listening
ConnectionLost ==
    /\ controller.socket = "stopping"
    /\ controller' = [controller EXCEPT !.socket = "closed"]
    /\ UNCHANGED <<protocol, transport, d, reactor, rx, ret, arg>>

Next ==
    \/ Start
    \/ Deliver
    \/ TimeoutFires
    \/ ConnectionRefused
    \/ Cancel
    \/ ConnectionLost

Spec == Init /\ [][Next]_vars

\* the reactor runs what is due: a timer that stays armed fires, a port that
\* stopped listening is closed; the server may stay silent at any point
FairSpec == Spec /\ WF_vars(TimeoutFires) /\ WF_vars(ConnectionLost)

\* a session with the server of peers A and B
DeliverSelection == DeliverOf(SelectionDatagrams)

NextSelection ==
    \/ Start
    \/ DeliverSelection
    \/ TimeoutFires
    \/ ConnectionRefused
    \/ Cancel
    \/ ConnectionLost

SpecSelection == Init /\ [][NextSelection]_vars

\* a session with the server whose datagrams may be cut short
DeliverDamaged == DeliverOf(DamagedDatagrams)

NextDamaged ==
    \/ Start
    \/ DeliverDamaged
    \/ TimeoutFires
    \/ ConnectionRefused
    \/ Cancel
    \/ ConnectionLost

SpecDamaged == Init /\ [][NextDamaged]_vars

\* a session with the server some of whose READSTAT responses are to be refused
DeliverRefused == DeliverOf(RefusedDatagrams)

NextRefused ==
    \/ Start
    \/ DeliverRefused
    \/ TimeoutFires
    \/ ConnectionRefused
    \/ Cancel
    \/ ConnectionLost

SpecRefused == Init /\ [][NextRefused]_vars

\* a session with the server whose peer table comes in fragments
DeliverFragments == DeliverOf(FragmentDatagrams)

NextFragments ==
    \/ Start
    \/ DeliverFragments
    \/ TimeoutFires
    \/ ConnectionRefused
    \/ Cancel
    \/ ConnectionLost

SpecFragments == Init /\ [][NextFragments]_vars

\* a session with the server whose READVAR responses vary
DeliverVariables == DeliverOf(VariableDatagrams)

NextVariables ==
    \/ Start
    \/ DeliverVariables
    \/ TimeoutFires
    \/ ConnectionRefused
    \/ Cancel
    \/ ConnectionLost

SpecVariables == Init /\ [][NextVariables]_vars

\* a session with the server of one or two qualifying peers
DeliverFallback == DeliverOf(FallbackDatagrams)

NextFallback ==
    \/ Start
    \/ DeliverFallback
    \/ TimeoutFires
    \/ ConnectionRefused
    \/ Cancel
    \/ ConnectionLost

SpecFallback == Init /\ [][NextFallback]_vars

\* a session with the server whose READVAR payload may be malformed
DeliverMalformed == DeliverOf(MalformedDatagrams)

NextMalformed ==
    \/ Start
    \/ DeliverMalformed
    \/ TimeoutFires
    \/ ConnectionRefused
    \/ Cancel
    \/ ConnectionLost

SpecMalformed == Init /\ [][NextMalformed]_vars

\* ------------------------------------------- direct calls of pure methods

\* offsets and thresholds set on a protocol before a method is called on it, as
\* the unit tests do
StaticOffsets ==
    {-130 * Micro, -10 * Micro, -1, 0, 1, 10 * Micro, 90 * Micro, 130 * Micro}

StaticThresholds ==
    {<<DefaultWarning, DefaultCritical>>, <<10 * Micro, 10 * Micro>>,
     <<DefaultCritical, DefaultWarning>>, <<0, 0>>}

InitStatic ==
    /\ \E offset \in StaticOffsets, known \in BOOLEAN, th \in StaticThresholds :
          protocol = [NtpProtocol("127.0.0.1", 2, th[1], th[2]) EXCEPT
                          !.offset = offset,
                          !.offsetResult = IF known THEN STATE_OK ELSE STATE_UNKNOWN]
    /\ InitAround
    /\ arg = NoArg

CallGetProcessedOffset ==
    /\ ret = <<>>
    /\ ret' = <<"getProcessedOffset", getProcessedOffset(protocol)>>
    /\ UNCHANGED <<protocol, transport, d, reactor, controller, rx, arg>>

NextStatic == CallGetProcessedOffset

SpecStatic == InitStatic /\ [][NextStatic]_vars

\* peersToCheck set on a protocol before checkCandidates is called on it, as
\* testCheckCandidates* do: up to three peers, status words of every clock select
\* (bits 8..10) under the other bits of the test's status 0x965a, and the bare
\* words 4 and 6, whose clock select is 0
PeerC == PeerA + 2

TablePeers == {PeerA, PeerB, PeerC}

TableStatuses == {18 * 2048 + sel * 256 + 90 : sel \in 0..7} \cup {4, 6}

PeerTables == UNION {[ids -> TableStatuses] : ids \in SUBSET TablePeers}

InitPeers ==
    /\ \E table \in PeerTables :
          protocol = [NtpProtocol("127.0.0.1", 2, DefaultWarning, DefaultCritical)
                          EXCEPT !.peersToCheck = table]
    /\ InitAround
    /\ arg = NoArg

CallCheckCandidates ==
    /\ ret = <<>>
    /\ protocol' = checkCandidates(protocol)
    /\ ret' = <<"checkCandidates", None>>
    /\ UNCHANGED <<transport, d, reactor, controller, rx, arg>>

NextPeers == CallCheckCandidates

SpecPeers == InitPeers /\ [][NextPeers]_vars

\* offsets passed to updateOffset on a fresh protocol, one call after the other, as
\* testUpdateOffset* do: 0.1337 s and 0.001 s of the tests, their negatives, and
\* 0 and +-1 us
Candidates == {-133700, -1000, -1, 0, 1, 1000, 133700}

InitOffsets ==
    /\ protocol = NtpProtocol("127.0.0.1", 2, DefaultWarning, DefaultCritical)
    /\ InitAround
    /\ arg = <<>>

\* arg is the sequence of the offsets passed so far
CallUpdateOffset ==
    /\ Len(arg) < MaxCalls
    /\ \E tmpOffset \in Candidates :
          /\ protocol' = updateOffset(protocol, tmpOffset)
          /\ arg' = Append(arg, tmpOffset)
    /\ ret' = <<"updateOffset", None>>
    /\ UNCHANGED <<transport, d, reactor, controller, rx>>

NextOffsets == CallUpdateOffset

SpecOffsets == InitOffsets /\ [][NextOffsets]_vars

\* the READVAR request packet as sendReadvarRequest and testReadvarRequest build it
ReadvarPacket(version, sequence, peer, getvar) ==
    setDataToRequest(setPeerToRequest(NtpPacket(version, 2, sequence), peer), getvar)

\* a variable string of n bytes: "offset" repeated, so that 6 bytes are "offset"
VarNames(n) == [i \in 1..n |-> OffsetKey[((i - 1) % 6) + 1]]

\* the packets the codec is called on: READVAR requests for peer A or no peer with
\* sequence 1 or 2 and variable strings of 0..MaxVarLen bytes
ReadvarPackets ==
    {ReadvarPacket(2, sequence, peer, VarNames(n)) :
        sequence \in 1..2, peer \in {0, PeerA}, n \in 0..MaxVarLen}

\* values of a 16-bit header field: the ends of the range and 0x0102
Words == {0, 258, 65535}

\* packets with header fields set over their widths, as testFromData* read them
HeaderPackets ==
    {[NtpPacket(2, opcode, sequence) EXCEPT
          !.leap = leap, !.status = status, !.assoc = assoc, !.offset = offset,
          !.count = count] :
        leap \in 0..3, opcode \in {0, 1, 130, 255}, sequence \in Words,
        status \in Words, assoc \in Words, offset \in Words, count \in Words}

\* arg is the packet or the datagram the codec is called on
PacketArg(p) == [kind |-> "packet", packet |-> p, data |-> <<>>]

DataArg(data) == [kind |-> "data", packet |-> NtpPacket(2, 1, 1), data |-> data]

\* the payload of a READSTAT response: the pairs (PeerA, statuses[1]),
\* (PeerA + 1, statuses[2]), ... as 16-bit values
RECURSIVE PairBytes(_, _)
PairBytes(statuses, i) ==
    IF i > Len(statuses) THEN <<>>
    ELSE PackH(PeerA + i - 1) \o PackH(statuses[i]) \o PairBytes(statuses, i + 1)

\* READSTAT responses as a server writes them, with 0..MaxPairs pairs of distinct
\* peers: the response of testPeers is the one with the single pair (PeerA, StatusA)
PeerDatagrams ==
    {Response(0, 129, 1, 1560, 0, 4 * Len(statuses), PairBytes(statuses, 1)) :
        statuses \in UNION {[1..n -> {StatusA, StatusB}] : n \in 0..MaxPairs}}

InitCodec ==
    /\ protocol = NtpProtocol("127.0.0.1", 2, DefaultWarning, DefaultCritical)
    /\ InitAround
    /\ arg \in {PacketArg(p) : p \in ReadvarPackets \cup HeaderPackets}
               \cup {DataArg(data) : data \in PeerDatagrams}

CallToDataReadstat ==
    /\ ret = <<>>
    /\ arg.kind = "packet"
    /\ ret' = <<"toDataReadstat", toDataReadstat(arg.packet)>>
    /\ UNCHANGED <<protocol, transport, d, reactor, controller, rx, arg>>

CallToDataReadvar ==
    /\ ret = <<>>
    /\ arg.kind = "packet"
    /\ ret' = <<"toDataReadvar", toDataReadvar(arg.packet)>>
    /\ UNCHANGED <<protocol, transport, d, reactor, controller, rx, arg>>

\* NtpPacket.fromData on a datagram, or on the bytes an encoder returned
CallFromData ==
    /\ \/ arg.kind = "data" /\ ret = <<>>
       \/ /\ arg.kind = "packet"
          /\ ret # <<>>
          /\ ret[1] \in {"toDataReadstat", "toDataReadvar"}
          /\ ret[2].ok
    /\ ret' = <<"fromData", fromData(IF arg.kind = "data" THEN arg.data ELSE ret[2].bytes)>>
    /\ UNCHANGED <<protocol, transport, d, reactor, controller, rx, arg>>

\* the peers property of the packet fromData returned for a datagram
CallPeers ==
    /\ arg.kind = "data"
    /\ ret # <<>>
    /\ ret[1] = "fromData"
    /\ ret[2].ok
    /\ ret' = <<"peers", peers(ret[2].packet)>>
    /\ UNCHANGED <<protocol, transport, d, reactor, controller, rx, arg>>

NextCodec ==
    \/ CallToDataReadstat
    \/ CallToDataReadvar
    \/ CallFromData
    \/ CallPeers

SpecCodec == InitCodec /\ [][NextCodec]_vars

\* ------------------------------------------------- configuration parsing

\* Python values handed to the parse methods: an int, a float (in microseconds),
\* a str, None, and an object() of no numeric type
PyInt(n) == [type |-> "int", value |-> n, text |-> <<>>]

PyFloat(micro) == [type |-> "float", value |-> micro, text |-> <<>>]

PyStr(bytes) == [type |-> "str", value |-> 0, text |-> bytes]

PyNone == [type |-> "NoneType", value |-> 0, text |-> <<>>]

PyObject == [type |-> "object", value |-> 0, text |-> <<>>]

\* Python truthiness
IsTrue(v) ==
    CASE v.type \in {"int", "float"} -> v.value # 0
      [] v.type = "str" -> v.text # <<>>
      [] v.type = "NoneType" -> FALSE
      [] OTHER -> TRUE

\* int(v): a float is truncated towards zero, a str must be [+-]digits
IntOf(v) ==
    CASE v.type = "int" -> [raised |-> None, value |-> v.value]
      [] v.type = "float" ->
            [raised |-> None,
             value |-> IF v.value < 0 THEN -((-v.value) \div Micro) ELSE v.value \div Micro]
      [] v.type = "str" ->
            LET neg == v.text # <<>> /\ v.text[1] = 45
                body == IF v.text # <<>> /\ v.text[1] \in {43, 45} THEN Tail(v.text)
                        ELSE v.text
            IN  IF IsDigits(body)
                THEN [raised |-> None,
                      value |-> IF neg THEN -DigitsValue(body) ELSE DigitsValue(body)]
                ELSE [raised |-> "ValueError", value |-> 0]
      [] OTHER -> [raised |-> "TypeError", value |-> 0]

\* float(v), in microseconds: a str must be [+-]digits[.digits]
FloatOf(v) ==
    CASE v.type = "int" -> [raised |-> None, value |-> v.value * Micro]
      [] v.type = "float" -> [raised |-> None, value |-> v.value]
      [] v.type = "str" ->
            LET parsed == ParseMillis(v.text)
            IN  IF parsed.ok THEN [raised |-> None, value |-> parsed.value * 1000]
                ELSE [raised |-> "ValueError", value |-> 0]
      [] OTHER -> [raised |-> "TypeError", value |-> 0]

\* except (ValueError, TypeError)
Caught == {"ValueError", "TypeError"}

\* the outcome of an assignment self.<setting> = <conversion> inside the try block:
\* the protocol after it, and the exception that left the method, if any
TryAssign(p, setting, converted) ==
    IF converted.raised = None
    THEN [raised |-> None, protocol |-> [p EXCEPT ![setting] = converted.value]]
    ELSE IF converted.raised \in Caught THEN [raised |-> None, protocol |-> p]
    ELSE [raised |-> converted.raised, protocol |-> p]

parsePort(p, port) == TryAssign(p, "port", IntOf(port))

parseTimeout(p, timeout) == TryAssign(p, "timeout", FloatOf(timeout))

parseThresholds(p, warning, critical) ==
    LET first == IF IsTrue(warning) THEN TryAssign(p, "warning", FloatOf(warning))
                 ELSE [raised |-> None, protocol |-> p]
    IN  IF first.raised # None THEN first
        ELSE IF IsTrue(critical) THEN TryAssign(first.protocol, "critical", FloatOf(critical))
        ELSE first

\* the class attributes port and timeout
DefaultPort == 123

DefaultTimeout == 60 * Micro

\* the values the tests hand to the parse methods (1337, 13.37, 13, "what is
\* port?", object(), None), and 37, 0, 0.0, "5", "12.5", "-1" and ""
ConfigValues ==
    {PyInt(1337), PyInt(13), PyInt(37), PyInt(0), PyFloat(13370000), PyFloat(0),
     PyStr(<<53>>), PyStr(<<49, 50, 46, 53>>), PyStr(<<45, 49>>),
     PyStr(<<119, 104, 97, 116>>), PyStr(<<>>), PyNone, PyObject}

\* the settings of a protocol before a parse method is called on it: the class
\* defaults, or what earlier calls parsed
ConfigSettings ==
    {[port |-> DefaultPort, timeout |-> DefaultTimeout, warning |-> DefaultWarning,
      critical |-> DefaultCritical],
     [port |-> 1337, timeout |-> 13370000, warning |-> 13 * Micro,
      critical |-> 37 * Micro]}

ConfigCalls ==
    {<<"parsePort", v>> : v \in ConfigValues}
        \cup {<<"parseTimeout", v>> : v \in ConfigValues}
        \cup {<<"parseThresholds", w, c>> : w \in ConfigValues, c \in ConfigValues}

InitConfig ==
    /\ \E settings \in ConfigSettings :
          protocol = settings @@
                     NtpProtocol("127.0.0.1", 2, DefaultWarning, DefaultCritical)
    /\ InitAround
    /\ arg \in ConfigCalls

CallParsePort ==
    /\ ret = <<>>
    /\ arg[1] = "parsePort"
    /\ protocol' = parsePort(protocol, arg[2]).protocol
    /\ ret' = <<"parsePort", parsePort(protocol, arg[2]).raised>>
    /\ UNCHANGED <<transport, d, reactor, controller, rx, arg>>

CallParseTimeout ==
    /\ ret = <<>>
    /\ arg[1] = "parseTimeout"
    /\ protocol' = parseTimeout(protocol, arg[2]).protocol
    /\ ret' = <<"parseTimeout", parseTimeout(protocol, arg[2]).raised>>
    /\ UNCHANGED <<transport, d, reactor, controller, rx, arg>>

CallParseThresholds ==
    /\ ret = <<>>
    /\ arg[1] = "parseThresholds"
    /\ protocol' = parseThresholds(protocol, arg[2], arg[3]).protocol
    /\ ret' = <<"parseThresholds", parseThresholds(protocol, arg[2], arg[3]).raised>>
    /\ UNCHANGED <<transport, d, reactor, controller, rx, arg>>

NextConfig ==
    \/ CallParsePort
    \/ CallParseTimeout
    \/ CallParseThresholds

SpecConfig == InitConfig /\ [][NextConfig]_vars

\* ------------------------------------------- NtpMonitorDataSourcePlugin

\* ZenEventClasses severities used by the plugin
Clear == 0

Error == 4

\* the labels the plugin looks the status up in
STATUS_TABLE ==
    (STATE_OK :> "NTP OK:") @@ (STATE_UNKNOWN :> "NTP UNKNOWN:") @@
    (STATE_WARNING :> "NTP WARNING:") @@ (STATE_CRITICAL :> "NTP CRITICAL:")

RECURSIVE ZeroFill(_, _)
\* the decimal digits s filled with zeros on the left up to width characters
ZeroFill(s, width) == IF Len(s) < width THEN ZeroFill("0" \o s, width) ELSE s

RECURSIVE StripZeros(_)
\* s without its trailing zeros
StripZeros(s) ==
    IF Len(s) > 0 /\ SubSeq(s, Len(s), Len(s)) = "0"
    THEN StripZeros(SubSeq(s, 1, Len(s) - 1))
    ELSE s

Sign(x) == IF x < 0 THEN "-" ELSE ""

\* "%.6f" % x, for x in microseconds: six decimals, always
FormatF6(x) ==
    Sign(x) \o ToString(Abs(x) \div Micro) \o "." \o ZeroFill(ToString(Abs(x) % Micro), 6)

\* "%.10g" % x, for x in microseconds with |x| below 10^4 s: the shortest decimal,
\* no decimal point for a whole number, exponent form below 0.0001
FormatG10(x) ==
    LET a == Abs(x)
        fraction == StripZeros(ZeroFill(ToString(a % Micro), 6))
        digits == StripZeros(ToString(a))
        rest == SubSeq(digits, 2, Len(digits))
    IN  IF a = 0 THEN "0"
        ELSE IF a < 10 THEN Sign(x) \o ToString(a) \o "e-06"
        ELSE IF a < 100
        THEN Sign(x) \o SubSeq(digits, 1, 1) \o (IF rest = "" THEN "" ELSE "." \o rest)
                 \o "e-05"
        ELSE Sign(x) \o ToString(a \div Micro)
                 \o (IF fraction = "" THEN "" ELSE "." \o fraction)

\* what collect puts into result when the exchange fails
TimeoutText == "NTP CRITICAL: Timeout. No response from NTP server."

ExceptionText == "NTP CRITICAL: " \o "Invalid packet received from NTP server"

\* process_result from the status looked up in STATUS_TABLE on: data after the
\* call, one event (device and eventClass are copied from the configuration and
\* left out) and the datapoint values recorded
EventData(result, status) ==
    LET unknown == result.offset_result = STATE_UNKNOWN
        label == IF status \in DOMAIN STATUS_TABLE THEN STATUS_TABLE[status]
                 ELSE "NTP UNKNOWN:"
        source == IF ~result.sync_source THEN " Server not synchronized"
                  ELSE IF result.li_alarm THEN " Server has the LI_ALARM bit set"
                  ELSE ""
        offset == IF unknown THEN " Offset unknown"
                  ELSE IF status = STATE_WARNING
                  THEN " Offset " \o FormatG10(result.offset) \o " secs (WARNING)"
                  ELSE IF status = STATE_CRITICAL
                  THEN " Offset " \o FormatG10(result.offset) \o " secs (CRITICAL)"
                  ELSE " Offset " \o FormatG10(result.offset) \o " secs"
        perf == IF unknown THEN ""
                ELSE "|offset=" \o FormatG10(result.offset) \o "s;"
                         \o FormatF6(result.warning) \o ";"
                         \o FormatF6(result.critical) \o ";"
        failed == result.timeout # None \/ result.exception # None
        output == IF result.timeout # None THEN result.timeout
                  ELSE IF result.exception # None THEN result.exception
                  ELSE label \o source \o offset \o perf
        severity == IF ~failed /\ ~unknown THEN Clear ELSE Error
    IN  [events |-> <<[eventKey |-> "NtpMonitor", summary |-> output,
                       message |-> output, severity |-> severity]>>,
         values |-> IF ~failed /\ ~unknown THEN {<<"offset", result.offset>>} ELSE {}]

\* process_result without the line that makes an unknown offset CRITICAL
process_resultKeepStatus(result) == EventData(result, result.status)

process_result(result) ==
    EventData(result,
              IF result.timeout = None /\ result.exception = None
                 /\ result.offset_result = STATE_UNKNOWN
              THEN STATE_CRITICAL ELSE result.status)

\* the results handed to process_result: the two failures of collect, and the
\* Results an exchange can deliver (status at least UNKNOWN when no offset was
\* adopted)
EventOffsets == {136 * 1000, -2063, 90 * Micro}

FailedResults ==
    {[timeout |-> t, exception |-> e, offset |-> 0, offset_result |-> STATE_UNKNOWN,
      status |-> STATE_UNKNOWN, sync_source |-> FALSE, li_alarm |-> FALSE,
      warning |-> DefaultWarning, critical |-> DefaultCritical] :
        <<t, e>> \in {<<TimeoutText, None>>, <<None, ExceptionText>>}}

DeliveredResults ==
    {r \in [timeout : {None}, exception : {None}, offset : EventOffsets,
            offset_result : {STATE_OK, STATE_UNKNOWN},
            status : {STATE_OK, STATE_UNKNOWN, STATE_WARNING, STATE_CRITICAL},
            sync_source : BOOLEAN, li_alarm : BOOLEAN,
            warning : {DefaultWarning, 10 * Micro},
            critical : {DefaultCritical}] :
        r.offset_result = STATE_UNKNOWN => r.status # STATE_OK}

InitEvent ==
    /\ protocol = NtpProtocol("127.0.0.1", 2, DefaultWarning, DefaultCritical)
    /\ InitAround
    /\ arg \in FailedResults \cup DeliveredResults

CallProcessResult ==
    /\ ret = <<>>
    /\ ret' = <<"process_result", process_result(arg)>>
    /\ UNCHANGED <<protocol, transport, d, reactor, controller, rx, arg>>

NextEvent == CallProcessResult

SpecEvent == InitEvent /\ [][NextEvent]_vars

\* ------------------------------------------------------------ properties

TimeoutMsg == "Timeout. No response from NTP server"

\* the errors that events from outside the exchange end a session with
OutsideErrors == {TimeoutMsg, "Connection refused", "CancelledError"}

Delivered == d.outcome.kind = "result"

Result == d.outcome.data

\* the session of testExchange: default thresholds, the READSTAT response and then
\* the READVAR response of the test, not ended from outside
ExchangeTestRun ==
    /\ controller.started
    /\ protocol.host = "127.0.0.1"
    /\ protocol.version = 2
    /\ protocol.warning = DefaultWarning
    /\ protocol.critical = DefaultCritical
    /\ rx = <<Ix(ReadstatTest), Ix(ReadvarTest)>>
    /\ d.outcome.msg \notin OutsideErrors

\* C1: the exchange of testExchange (READSTAT response with peer 26611 of clock
\* select 6, then READVAR response "offset=2.063") delivers exactly one Result:
\* offset 0.002063 s, offset known, synchronized, no leap alarm, status OK, no error.
C1_Exchange ==
    ExchangeTestRun =>
        /\ Delivered
        /\ d.fired = 1
        /\ Result.offset = 2063
        /\ Result.offsetResult = STATE_OK
        /\ Result.syncSource
        /\ ~Result.liAlarm
        /\ Result.status = STATE_OK

C1_Witness == ExchangeTestRun /\ Delivered /\ Result.offset = 2063

\* the base status of peer selection, from the flags the Result reports
BaseStatus(r) == IF ~r.syncSource \/ r.liAlarm THEN STATE_WARNING ELSE STATE_OK

\* C2: on Done the overall status of the Result is the maximum, under
\* OK < UNKNOWN < WARNING < CRITICAL, of the base status of peer selection and the
\* offset-threshold status.
C2_StatusIsMaximum ==
    Delivered => Result.status = Max(BaseStatus(Result), getProcessedOffset(Result))

\* C3: a Result of a session that found no synchronization source has an overall
\* status of at least WARNING.
C3_NoSyncSourceWarns ==
    (Delivered /\ ~Result.syncSource) => Result.status >= STATE_WARNING

\* C4: a Result of a session whose READSTAT response carried leap indicator 3 has
\* leapAlarm set and an overall status of at least WARNING.
C4_LeapAlarmWarns ==
    (Delivered /\ rx # <<>> /\ rx[1] = Ix(ReadstatAlarm)) =>
        (Result.liAlarm /\ Result.status >= STATE_WARNING)

C6_SessionEnds == controller.started ~> d.called

\* C7: when the timer armed for a request fires before any datagram arrived, a
\* session that has not ended otherwise ends with the timeout error, without a
\* Result, and its port stops listening.
C7_Timeout ==
    [][(reactor.timeoutCall = "active" /\ reactor'.timeoutCall = "called" /\ ~d.called) =>
          (/\ d'.called
           /\ d'.outcome.kind = "error"
           /\ d'.outcome.msg = TimeoutMsg
           /\ d'.fired = 1
           /\ controller'.socket \in {"stopping", "closed"})]_vars

C7_Witness ==
    /\ d.outcome.msg = TimeoutMsg
    /\ reactor.timeoutCall = "called"
    /\ rx = <<>>
    /\ controller.socket = "stopping"

C9_HostUnset ==
    (controller.started /\ protocol.host = None) =>
        /\ d.called
        /\ d.outcome.kind = "error"
        /\ d.outcome.msg = "Host is not specified"
        /\ ~transport.connected
        /\ transport.written = <<>>
        /\ reactor.timeoutCall = None
        /\ reactor.armed = 0
        /\ protocol.sequenceCounter = 1
        /\ protocol.peersToCheck = EmptyDict

C9_Witness == controller.started /\ protocol.host = None /\ d.fired = 1

\* the value getProcessedOffset returned
Returned == ret[2]

\* C10: the threshold evaluator returns UNKNOWN when no offset was adopted, else
\* CRITICAL if offset > critical, else WARNING if offset > warning, else OK, on
\* the signed offset: a negative offset with non-negative thresholds is OK;
\* (130, 60, 120) is CRITICAL, (90, 60, 120) WARNING, (10, 60, 120) OK.
C10_Thresholds ==
    (ret # <<>> /\ ret[1] = "getProcessedOffset") =>
        LET known == protocol.offsetResult # STATE_UNKNOWN
            defaults == /\ known
                        /\ protocol.warning = 60 * Micro
                        /\ protocol.critical = 120 * Micro
        IN  /\ ~known => Returned = STATE_UNKNOWN
            /\ (known /\ protocol.offset > protocol.critical) => Returned = STATE_CRITICAL
            /\ (known /\ protocol.offset <= protocol.critical
                      /\ protocol.offset > protocol.warning) => Returned = STATE_WARNING
            /\ (known /\ protocol.offset <= protocol.critical
                      /\ protocol.offset <= protocol.warning) => Returned = STATE_OK
            /\ (known /\ protocol.offset < 0 /\ protocol.warning >= 0
                      /\ protocol.critical >= 0) => Returned = STATE_OK
            /\ (defaults /\ protocol.offset = 130 * Micro) => Returned = STATE_CRITICAL
            /\ (defaults /\ protocol.offset = 90 * Micro) => Returned = STATE_WARNING
            /\ (defaults /\ protocol.offset = 10 * Micro) => Returned = STATE_OK

C10_Witness ==
    /\ ret = <<"getProcessedOffset", STATE_OK>>
    /\ protocol.offsetResult = STATE_OK
    /\ protocol.offset = -130 * Micro
    /\ protocol.critical = DefaultCritical

\* the clock select of a status word: (status >> 8) & 7
ClockSelect(status) == (status \div 256) % 8

\* C11: after checkCandidates, synchronized is true and minSelectionClass is 6 if
\* and only if at least one peer of the table has clock select 6; otherwise
\* synchronized is false and minSelectionClass stays 4 (the empty table and tables
\* whose best peers have clock select 4 included).
C11_Classification ==
    (ret # <<>> /\ ret[1] = "checkCandidates") =>
        LET table == protocol.peersToCheck
            source == \E peer \in DOMAIN table : ClockSelect(table[peer]) = 6
        IN  /\ protocol.syncSource <=> source
            /\ protocol.minPeerSource = (IF source THEN 6 ELSE 4)
            /\ table = EmptyDict => (~protocol.syncSource /\ protocol.minPeerSource = 4)

C11_Witness ==
    /\ ret = <<"checkCandidates", None>>
    /\ DOMAIN protocol.peersToCheck = {PeerA, PeerB}
    /\ ClockSelect(protocol.peersToCheck[PeerA]) = 6
    /\ ClockSelect(protocol.peersToCheck[PeerB]) = 4
    /\ protocol.syncSource
    /\ protocol.minPeerSource = 6

\* the READVAR requests written so far
ReadvarRequests == SelectSeq(transport.written, LAMBDA b : b[2] = 2)

\* the peer a request is addressed to
Association(b) == UnpackH(b[7], b[8])

\* the status word the servers of the model report for a peer
ReportedStatus(peer) == IF peer = PeerA THEN StatusA ELSE StatusB

\* a session with a host and version 2 that was not ended from outside
SessionRun ==
    /\ controller.started
    /\ protocol.host # None
    /\ protocol.version = 2
    /\ d.outcome.msg \notin OutsideErrors

\* C12: a READVAR request is only ever sent to a peer whose clock select is >= the
\* minSelectionClass elected from the complete table; for the table {A: class 6,
\* offset 0.136 s; B: class 4} minSelectionClass is 6, peer A and only peer A is
\* queried, whatever the order the table is processed in, and bestOffset is 0.136.
C12_OnlyQualifiedQueried ==
    /\ \A i \in 1..Len(ReadvarRequests) :
          ClockSelect(ReportedStatus(Association(ReadvarRequests[i])))
              >= protocol.minPeerSource
    /\ (SessionRun /\ rx = <<Ix(ReadstatMore), Ix(ReadstatTest)>>) =>
          /\ protocol.minPeerSource = 6
          /\ Len(ReadvarRequests) = 1
          /\ Association(ReadvarRequests[1]) = PeerA
    /\ (SessionRun /\ rx = <<Ix(ReadstatMore), Ix(ReadstatTest), Ix(Readvar136)>>) =>
          /\ protocol.offsetResult = STATE_OK
          /\ protocol.offset = 136 * 1000

\* the index of the earliest offset of smallest magnitude in a sequence
Smallest(offered) ==
    CHOOSE i \in 1..Len(offered) :
        /\ \A j \in 1..Len(offered) : Abs(offered[i]) <= Abs(offered[j])
        /\ \A j \in 1..(i - 1) : Abs(offered[j]) > Abs(offered[i])

\* C13: updateOffset adopts the candidate when no offset was adopted yet, and
\* otherwise only when its magnitude is strictly smaller than that of bestOffset,
\* leaving the protocol unchanged when it is not; hence after any sequence of
\* calls the offset is known and bestOffset is the offered candidate of smallest
\* magnitude, the earliest one on ties, with its sign.
C13_Adoption ==
    /\ [](arg # <<>> =>
            /\ protocol.offsetResult = STATE_OK
            /\ protocol.offset = arg[Smallest(arg)])
    /\ [][LET tmpOffset == arg'[Len(arg')]
           IN  IF protocol.offsetResult = STATE_UNKNOWN
                  \/ Abs(tmpOffset) < Abs(protocol.offset)
               THEN protocol'.offset = tmpOffset /\ protocol'.offsetResult = STATE_OK
               ELSE protocol' = protocol]_vars

C13_Witness ==
    /\ arg = <<1000, -1000, 133700>>
    /\ protocol.offset = 1000
    /\ protocol.offsetResult = STATE_OK

\* the peer table as the READSTAT fragment just received completes it
CompleteTable ==
    Update(protocol.peersToCheck, peers(fromData(Datagrams[rx'[Len(rx')]]).packet).peers)

\* C14: when the READVAR phase is entered with an empty peer table, a session
\* that has not ended goes to Done in the same step: no READVAR request is
\* written, no timer is armed, and the Result is delivered with offset unknown and
\* status UNKNOWN.
C14_EmptyTable ==
    [][(protocol.readstat /\ ~protocol'.readstat /\ ~d.called
            /\ CompleteTable = EmptyDict) =>
          (/\ d'.called
           /\ d'.fired = 1
           /\ d'.outcome.kind = "result"
           /\ d'.outcome.data.offsetResult = STATE_UNKNOWN
           /\ d'.outcome.data.status = STATE_UNKNOWN
           /\ transport'.written = transport.written
           /\ reactor'.armed = reactor.armed
           /\ reactor'.timeoutCall # "active")]_vars

C14_Witness ==
    /\ rx = <<Ix(ReadstatEmpty)>>
    /\ Delivered
    /\ Result.offsetResult = STATE_UNKNOWN
    /\ Result.status = STATE_UNKNOWN
    /\ ReadvarRequests = <<>>
    /\ reactor.armed = 1
    /\ reactor.timeoutCall = "cancelled"

VersionMsg == "Version of NTP protocol is not implemented"

\* C15: encoding a READSTAT or a READVAR request raises the protocol error of an
\* unimplemented version whenever the version is not 2; a session with such a
\* version ends with that error when it starts, with nothing written to the
\* transport and no timeout armed.
C15_VersionNot2 ==
    /\ \A version \in 0..7, sequence \in 1..2 :
          version # 2 =>
              /\ toDataReadstat(NtpPacket(version, 1, sequence)) = Raised(VersionMsg)
              /\ toDataReadvar(ReadvarPacket(version, sequence, PeerA, OffsetKey))
                     = Raised(VersionMsg)
    /\ (controller.started /\ protocol.host # None /\ protocol.version # 2) =>
          /\ d.called
          /\ d.outcome.kind = "error"
          /\ d.outcome.msg = VersionMsg
          /\ transport.written = <<>>
          /\ reactor.armed = 0
          /\ reactor.timeoutCall = None

C15_Witness ==
    /\ controller.started
    /\ protocol.host = "127.0.0.1"
    /\ protocol.version = 3
    /\ d.fired = 1
    /\ d.outcome.msg = VersionMsg
    /\ rx # <<>>

\* C16: toDataReadvar emits the 12-byte header with count = the byte length of the
\* variable string, then the string, then zero bytes so that string plus padding
\* is a multiple of 12 bytes long: none when count is 0 or a multiple of 12, never
\* 12 or more; peer 26611, sequence 2 and "offset" give the header, "offset" and
\* 6 zero bytes.
C16_ReadvarEncoding ==
    (ret # <<>> /\ ret[1] = "toDataReadvar" /\ ~arg.packet.data.none
         /\ arg.packet.leap = 0 /\ arg.packet.status = 0 /\ arg.packet.offset = 0) =>
        LET p == arg.packet
            n == Len(p.data.bytes)
            out == ret[2].bytes
            pad == Len(out) - 12 - n
        IN  /\ ret[2].ok
            /\ p.count = n
            /\ pad \in 0..11
            /\ (n + pad) % 12 = 0
            /\ n % 12 = 0 => pad = 0
            /\ SubSeq(out, 1, 12) =
                   <<22, p.opcode, p.sequence \div 256, p.sequence % 256, 0, 0,
                     p.assoc \div 256, p.assoc % 256, 0, 0, n \div 256, n % 256>>
            /\ SubSeq(out, 13, 12 + n) = p.data.bytes
            /\ \A i \in (13 + n)..Len(out) : out[i] = 0
            /\ (p.assoc = 26611 /\ p.sequence = 2 /\ p.data.bytes = OffsetKey) =>
                   out = <<22, 2, 0, 2, 0, 0, 103, 243, 0, 0, 0, 6,
                           111, 102, 102, 115, 101, 116, 0, 0, 0, 0, 0, 0>>

C16_Witness ==
    /\ ret # <<>>
    /\ ret[1] = "toDataReadvar"
    /\ arg.packet.assoc = PeerA
    /\ arg.packet.sequence = 2
    /\ arg.packet.data = Str(OffsetKey)
    /\ Len(ret[2].bytes) = 24

HeaderFields ==
    {"leap", "version", "mode", "opcode", "sequence", "status", "assoc", "offset",
     "count"}

\* C17: round trip: for a packet with leap 0..3, version 2, mode 6, an opcode byte
\* and 16-bit sequence, status, associationId, dataOffset and count, decoding the
\* encoded packet succeeds and reproduces every header field.
C17_RoundTrip ==
    (ret # <<>> /\ ret[1] = "fromData" /\ arg.kind = "packet") =>
        /\ ret[2].ok
        /\ \A f \in HeaderFields : ret[2].packet[f] = arg.packet[f]

C17_Witness ==
    /\ ret # <<>>
    /\ ret[1] = "fromData"
    /\ arg.kind = "packet"
    /\ arg.packet.leap = 3
    /\ arg.packet.opcode = 130
    /\ arg.packet.sequence = 258
    /\ arg.packet.status = 65535
    /\ arg.packet.count = 258
    /\ ret[2].packet.sequence = 258

\* the datagram handed to datagramReceived in this step
Received == Datagrams[rx'[Len(rx')]]

\* C18: a datagram shorter than 12 bytes fails decode with the protocol error of
\* an invalid packet, and a session waiting for a READSTAT or a READVAR response
\* ends with that error: no peers merged, no offset adopted, nothing else of the
\* protocol changed, no further request written, no timer armed.
C18_ShortDatagram ==
    [][(rx' # rx /\ Len(Received) < 12 /\ ~d.called) =>
          (/\ fromData(Received).ok = FALSE
           /\ fromData(Received).err = InvalidPacket
           /\ d'.called
           /\ d'.fired = 1
           /\ d'.outcome.kind = "error"
           /\ d'.outcome.msg = InvalidPacket
           /\ protocol' = protocol
           /\ transport' = transport
           /\ reactor'.armed = reactor.armed
           /\ reactor'.timeoutCall # "active")]_vars

C18_Witness ==
    /\ rx = <<Ix(ReadstatTest), Ix(Short11)>>
    /\ ~protocol.readstat
    /\ d.fired = 1
    /\ d.outcome.msg = InvalidPacket
    /\ protocol.offsetResult = STATE_UNKNOWN
    /\ Len(transport.written) = 2

\* the count a datagram of at least 12 bytes declares in its header
DeclaredCount(data) == UnpackH(data[11], data[12])

\* a datagram whose header declares more payload than follows it
Overdeclared(data) == Len(data) >= 12 /\ DeclaredCount(data) > Len(data) - 12

\* C19: decode fails with a protocol error whenever the count declared in the
\* header exceeds the payload bytes present after the 12-byte header, in a
\* READSTAT and in a READVAR response alike: such a datagram adds no peer, sets no
\* offset, and ends a session that has not ended with an error.
C19_CountExceedsPayload ==
    [][(rx' # rx /\ Overdeclared(Received)) =>
          (/\ ~fromData(Received).ok
           /\ protocol'.peersToCheck = protocol.peersToCheck
           /\ protocol'.offset = protocol.offset
           /\ protocol'.offsetResult = protocol.offsetResult
           /\ ~d.called => (d'.called /\ d'.outcome.kind = "error"))]_vars

\* the consecutive (peerId, status) pairs of the payload of a datagram
PairsOf(data) ==
    LET payload == Drop(data, 12)
    IN  [i \in 1..(Len(payload) \div 4) |->
            <<UnpackH(payload[4 * i - 3], payload[4 * i - 2]),
              UnpackH(payload[4 * i - 1], payload[4 * i])>>]

\* the table with one entry for every pair (the peer ids are distinct)
TableOf(pairs) ==
    [peer \in {pairs[i][1] : i \in 1..Len(pairs)} |->
        pairs[CHOOSE i \in 1..Len(pairs) : pairs[i][1] = peer][2]]

\* C20: the peers of a READSTAT response are one entry for every consecutive
\* (peerId, status) pair of its payload: n pairs with distinct peer ids give
\* exactly those n peerId -> status entries, for every n >= 0; the single pair
\* (26611, 38490) gives {26611: 38490}.
C20_EveryPair ==
    (ret # <<>> /\ ret[1] = "peers") =>
        /\ ret[2].ok
        /\ ret[2].peers = TableOf(PairsOf(arg.data))
        /\ Cardinality(DOMAIN ret[2].peers) = Len(PairsOf(arg.data))

\* the READVAR responses of the model whose variable payload is malformed
MalformedReadvar == {ReadvarBadItem, ReadvarBadNumber, ReadvarEmptyItem}

\* C21: a READVAR response whose reassembled variable payload is malformed (an
\* item that is not exactly one key=value pair, an offset that is not numeric),
\* received by a session awaiting a READVAR response, ends the session with the
\* protocol error as its outcome: no Result, and no exception left unhandled.
C21_MalformedPayload ==
    [][(rx' # rx /\ Received \in MalformedReadvar /\ ~protocol.readstat /\ ~d.called) =>
          (/\ d'.called
           /\ d'.outcome.kind = "error"
           /\ d'.outcome.msg = InvalidPacket
           /\ reactor'.unhandled = reactor.unhandled)]_vars

\* the event and the datapoint values process_result left in data
Event == ret[2].events[1]

Values == ret[2].values

Processed == ret # <<>> /\ ret[1] = "process_result"

Failed == arg.timeout # None \/ arg.exception # None

StartsWith(s, prefix) == Len(s) >= Len(prefix) /\ SubSeq(s, 1, Len(prefix)) = prefix

EndsWith(s, suffix) ==
    Len(s) >= Len(suffix) /\ SubSeq(s, Len(s) - Len(suffix) + 1, Len(s)) = suffix

Contains(s, part) ==
    \E i \in 1..(Len(s) - Len(part) + 1) : SubSeq(s, i, i + Len(part) - 1) = part

\* C22: the event severity is clear if and only if the Result's overall status
\* is OK; every other status (UNKNOWN, WARNING, CRITICAL), every timeout and
\* every protocol error yields severity error.
C22_Severity ==
    Processed =>
        /\ Event.severity \in {Clear, Error}
        /\ Event.severity = Clear <=> (~Failed /\ arg.status = STATE_OK)

\* C23: for a Result whose offset is unknown, the event text starts with the
\* label "NTP CRITICAL:" whatever status the exchange computed, contains "Server
\* not synchronized" when no synchronization source was found, ends with "Offset
\* unknown" and carries no "|offset=" suffix, and no offset datapoint value is
\* recorded.
C23_UnknownOffset ==
    (Processed /\ ~Failed /\ arg.offset_result = STATE_UNKNOWN) =>
        /\ \A text \in {Event.message, Event.summary} :
              /\ StartsWith(text, "NTP CRITICAL:")
              /\ ~arg.sync_source => Contains(text, "Server not synchronized")
              /\ EndsWith(text, "Offset unknown")
              /\ ~Contains(text, "|offset=")
        /\ Values = {}

\* the Result of testOnSuccessEventNoSyncSource (status WARNING, offset unknown,
\* no synchronization source) was processed into the event text of the test
C23_Witness ==
    /\ Processed
    /\ ~Failed
    /\ arg.offset_result = STATE_UNKNOWN
    /\ arg.status = STATE_WARNING
    /\ ~arg.sync_source
    /\ arg.offset = 136 * 1000
    /\ Event.message = "NTP CRITICAL: Server not synchronized Offset unknown"

\* the status text the formatting contract gives a Result with a known offset
StatusText ==
    LET label == CASE arg.status = STATE_OK -> "NTP OK:"
                   [] arg.status = STATE_UNKNOWN -> "NTP UNKNOWN:"
                   [] arg.status = STATE_WARNING -> "NTP WARNING:"
                   [] arg.status = STATE_CRITICAL -> "NTP CRITICAL:"
        source == CASE ~arg.sync_source -> " Server not synchronized"
                    [] arg.sync_source /\ arg.li_alarm -> " Server has the LI_ALARM bit set"
                    [] OTHER -> ""
        mark == CASE arg.status = STATE_WARNING -> " (WARNING)"
                  [] arg.status = STATE_CRITICAL -> " (CRITICAL)"
                  [] OTHER -> ""
    IN  label \o source \o " Offset " \o FormatG10(arg.offset) \o " secs" \o mark

PerfSuffix ==
    "|offset=" \o FormatG10(arg.offset) \o "s;" \o FormatF6(arg.warning) \o ";"
        \o FormatF6(arg.critical) \o ";"

\* C24: for a Result whose offset is known, the datapoint value "offset" equals
\* the Result's offset, the event message is the status text followed by
\* "|offset=<offset>s;<warning>;<critical>;", the event summary is the status text
\* without that suffix, and the status text carries "(WARNING)" or "(CRITICAL)"
\* after the offset exactly when the overall status is WARNING or CRITICAL.
C24_KnownOffset ==
    (Processed /\ ~Failed /\ arg.offset_result # STATE_UNKNOWN) =>
        /\ Values = {<<"offset", arg.offset>>}
        /\ Event.message = StatusText \o PerfSuffix
        /\ Event.summary = StatusText
        /\ Contains(Event.message, "secs (WARNING)|") <=> arg.status = STATE_WARNING
        /\ Contains(Event.message, "secs (CRITICAL)|") <=> arg.status = STATE_CRITICAL

\* the setting a parse method leaves behind for the value v: the converted value
\* where int() / float() accepts v, else the previous one
Parsed(converted, previous) == IF converted.raised = None THEN converted.value ELSE previous

\* C25: configuration parsing never fails and never corrupts a setting: for each
\* of port, timeout, warning and critical a convertible value replaces the
\* setting (port as integer, the others as float) and a value that cannot be
\* converted leaves the previous value; parsing one threshold leaves the other
\* threshold unchanged, and a parse method changes no setting but its own.
C25_Parsing ==
    [][(ret = <<>> /\ ret' # <<>> /\ ret'[1] \in {"parsePort", "parseTimeout", "parseThresholds"}) =>
          /\ ret'[2] = None
          /\ protocol'.port =
                IF arg[1] = "parsePort" THEN Parsed(IntOf(arg[2]), protocol.port)
                ELSE protocol.port
          /\ protocol'.timeout =
                IF arg[1] = "parseTimeout" THEN Parsed(FloatOf(arg[2]), protocol.timeout)
                ELSE protocol.timeout
          /\ protocol'.warning =
                IF arg[1] = "parseThresholds"
                THEN Parsed(FloatOf(arg[2]), protocol.warning)
                ELSE protocol.warning
          /\ protocol'.critical =
                IF arg[1] = "parseThresholds"
                THEN Parsed(FloatOf(arg[3]), protocol.critical)
                ELSE protocol.critical]_vars

\* the sequence number a request carries
Sequence(b) == UnpackH(b[3], b[4])

\* C26: every request sent in a session (READSTAT, each peer's READVAR, the READVAR
\* fallback retry) carries a sequence number strictly greater than that of every
\* request sent earlier in the session.
C26_SequenceIncreases ==
    \A i \in 1..Len(transport.written) : \A j \in 1..Len(transport.written) :
        i < j => Sequence(transport.written[i]) < Sequence(transport.written[j])

\* the peers of a table that qualify for a READVAR request
Qualifying(table, minPeerSource) ==
    {peer \in DOMAIN table : ClockSelect(table[peer]) >= minPeerSource}

\* what is left to do after the peers of table were worked through from the
\* first one popped on: a READVAR request to a qualifying peer with a timeout
\* armed for it, or, when no peer of the table qualifies, the Result delivered
Continues(table) ==
    LET qualifying == Qualifying(table, protocol'.minPeerSource)
    IN  IF qualifying = {}
        THEN /\ d'.called
             /\ d'.outcome.kind = "result"
             /\ transport'.written = transport.written
        ELSE /\ ~d'.called
             /\ Len(transport'.written) = Len(transport.written) + 1
             /\ Association(transport'.written[Len(transport'.written)]) \in qualifying
             /\ reactor'.timeoutCall = "active"

\* C27: after READSTAT completes, a peer whose clock select is below
\* minSelectionClass is skipped without a request and the controller continues
\* with the next remaining peer or, when none remains, delivers the Result: when
\* the READVAR phase is entered and after every READVAR response that takes the
\* next peer from the table, a request is out for a qualifying peer, or no
\* remaining peer qualifies and the Result is delivered, whatever the order.
C27_SkippedPeers ==
    [][/\ (protocol.readstat /\ ~protocol'.readstat /\ ~d.called
            /\ CompleteTable # EmptyDict) => Continues(CompleteTable)
       /\ (~protocol.readstat /\ ~d.called
            /\ protocol'.peersToCheck # protocol.peersToCheck) =>
                Continues(protocol.peersToCheck)]_vars

\* a datagram that a session awaiting READSTAT is to refuse: too short to decode,
\* a declared count above 468, a sequence other than the outstanding request's,
\* or bit 6 (error) of the opcode byte set
Refused(data) ==
    \/ Len(data) < 12
    \/ DeclaredCount(data) > 468
    \/ Sequence(data) # protocol.sequenceCounter
    \/ (data[2] \div 64) % 2 = 1

Accepted(data) ==
    /\ ~Refused(data)
    /\ DeclaredCount(data) = Len(data) - 12
    /\ DeclaredCount(data) % 4 = 0

\* bit 5 (more) of the opcode byte of a datagram
MoreBit(data) == (data[2] \div 32) % 2 = 1

\* the peer table with every pair of the fragment just received merged into it
MergedTable == Update(protocol.peersToCheck, TableOf(PairsOf(Received)))

\* C29: while awaiting READSTAT, a valid fragment with the more bit merges its
\* peers into the peer table, sends no request, leaves sequenceCounter unchanged
\* and keeps the session awaiting READSTAT; peer selection starts only on a valid
\* fragment without the bit, and selection uses the union of the entries of all
\* accepted fragments (minSelectionClass and synchronized are elected from it, and
\* what is left of the table is that union less the peer taken first).
C29_Fragments ==
    [][/\ (rx' # rx /\ protocol.readstat /\ ~d.called /\ Accepted(Received)
            /\ MoreBit(Received)) =>
               (/\ protocol'.peersToCheck = MergedTable
                /\ transport'.written = transport.written
                /\ protocol'.sequenceCounter = protocol.sequenceCounter
                /\ protocol'.readstat
                /\ ~d'.called)
       /\ (protocol.readstat /\ ~protocol'.readstat) =>
               (rx' # rx /\ ~d.called => Accepted(Received) /\ ~MoreBit(Received))
       /\ (rx' # rx /\ protocol.readstat /\ ~d.called /\ Accepted(Received)
            /\ ~MoreBit(Received)) =>
               (/\ ~protocol'.readstat
                /\ protocol'.syncSource <=>
                      \E peer \in DOMAIN MergedTable : ClockSelect(MergedTable[peer]) = 6
                /\ protocol'.minPeerSource = (IF protocol'.syncSource THEN 6 ELSE 4)
                /\ \E peer \in DOMAIN MergedTable :
                      protocol'.peersToCheck =
                          [k \in DOMAIN MergedTable \ {peer} |-> MergedTable[k]])]_vars

\* the request written in this step
Written == transport'.written[Len(transport'.written)]

\* C30: while a READVAR response is awaited and requestedVariable is "offset", a
\* datagram with the outstanding request's sequence and the error bit set causes no
\* terminal outcome: requestedVariable becomes "", exactly one new READVAR request
\* is written, for the same peer and naming no variable (all are requested), and
\* a timeout is armed for it.
C30_Fallback ==
    [][(/\ rx' # rx
        /\ ~protocol.readstat
        /\ ~d.called
        /\ reactor.timeoutCall = "active"
        /\ protocol.getvar = OffsetKey
        /\ Len(Received) >= 12
        /\ DeclaredCount(Received) <= 468
        /\ Sequence(Received) = protocol.sequenceCounter
        /\ (Received[2] \div 64) % 2 = 1) =>
          (/\ ~d'.called
           /\ reactor'.unhandled = reactor.unhandled
           /\ protocol'.getvar = <<>>
           /\ protocol'.currentPeer = protocol.currentPeer
           /\ ~protocol'.readstat
           /\ Len(transport'.written) = Len(transport.written) + 1
           /\ SubSeq(transport'.written, 1, Len(transport.written)) = transport.written
           /\ Written[2] = 2
           /\ Association(Written) = protocol.currentPeer
           /\ DeclaredCount(Written) = 0
           /\ Len(Written) = 12
           /\ reactor'.timeoutCall = "active"
           /\ reactor'.armed = reactor.armed + 1
           /\ reactor'.orphans = reactor.orphans)]_vars

\* the exchange of the test up to the READVAR request, then the error response:
\* the retry is out, with a timer, and the session has no outcome yet
C30_Witness ==
    /\ rx = <<Ix(ReadstatTest), Ix(ReadvarError)>>
    /\ ~d.called
    /\ protocol.getvar = <<>>
    /\ protocol.currentPeer = PeerA
    /\ Len(transport.written) = 3
    /\ Len(transport.written[3]) = 12
    /\ Association(transport.written[3]) = PeerA
    /\ reactor.timeoutCall = "active"

\* a datagram that passes the decoding, size and sequence checks of a session
\* awaiting a READVAR response
Checked(data) ==
    /\ Len(data) >= 12
    /\ DeclaredCount(data) <= 468
    /\ Sequence(data) = protocol.sequenceCounter

\* bit 6 (error) and bit 1 (what isResponse reads) of the opcode byte
ErrorBit(data) == (data[2] \div 64) % 2 = 1

ResponseBit(data) == (data[2] \div 2) % 2 = 1

\* C31: while awaiting a READVAR response, a datagram with the error bit set
\* received when requestedVariable is already "", and a datagram without the
\* error bit that is not flagged isResponse, each end the session with a protocol
\* error; no offset is adopted from that datagram and no further request is sent.
C31_SecondError ==
    [][(/\ rx' # rx
        /\ ~protocol.readstat
        /\ ~d.called
        /\ Checked(Received)
        /\ \/ ErrorBit(Received) /\ protocol.getvar = <<>>
           \/ ~ErrorBit(Received) /\ ~ResponseBit(Received)) =>
          (/\ d'.called
           /\ d'.fired = 1
           /\ d'.outcome.kind = "error"
           /\ d'.outcome.msg = InvalidPacket
           /\ protocol' = protocol
           /\ transport'.written = transport.written
           /\ reactor'.armed = reactor.armed
           /\ reactor'.timeoutCall # "active")]_vars

\* the retry was answered with the error bit again: the session ended with the
\* protocol error after three requests, offset unknown
C31_Witness ==
    /\ rx = <<Ix(ReadstatTest), Ix(ReadvarError), Ix(ReadvarError)>>
    /\ d.outcome.kind = "error"
    /\ d.outcome.msg = InvalidPacket
    /\ protocol.getvar = <<>>
    /\ protocol.offsetResult = STATE_UNKNOWN
    /\ Len(transport.written) = 3

\* the first count payload bytes of a datagram
Payload(data) == Take(Drop(data, 12), DeclaredCount(data))

\* a READVAR fragment or last fragment the checks of processReadvarResponse let
\* through to the reassembly
Reassembled(data) ==
    /\ Checked(data)
    /\ ~ErrorBit(data)
    /\ ResponseBit(data)
    /\ DeclaredCount(data) >= 4

\* the payloads, in arrival order, of the fragments received since the last
\* datagram that was not a fragment, among the first n received datagrams
RECURSIVE Fragments(_)
Fragments(n) ==
    IF n <= 1 \/ ~MoreBit(Datagrams[rx[n]]) \/ ErrorBit(Datagrams[rx[n]])
    THEN <<>>
    ELSE Fragments(n - 1) \o Payload(Datagrams[rx[n]])

\* the text getPeerOffset reads once the last fragment is joined to the buffer
Handed ==
    Take(protocol.dataQueue \o Drop(Received, 12),
         protocol.dataQueueCtr + DeclaredCount(Received))

\* C32: READVAR reassembly: a valid fragment with more-fragments set appends its
\* payload to the reassembly buffer and sends no request; on the final fragment
\* the text handed to the offset extraction is exactly the concatenation, in
\* arrival order, of the first count payload bytes of every fragment of that
\* peer's response, and the buffer is empty afterwards.
C32_Reassembly ==
    [][(/\ rx' # rx
        /\ ~protocol.readstat
        /\ Reassembled(Received)) =>
          IF MoreBit(Received)
          THEN /\ protocol'.dataQueue = Fragments(Len(rx)) \o Payload(Received)
               /\ transport'.written = transport.written
          ELSE /\ Handed = Fragments(Len(rx)) \o Payload(Received)
               /\ protocol'.dataQueue = <<>>
               /\ protocol'.dataQueueCtr = 0]_vars

\* the offset variable of an unfragmented READVAR response has a numeric value
NumericOffset(data) ==
    /\ getPeerOffset(fromData(data).packet).raised = None
    /\ ~getPeerOffset(fromData(data).packet).none

\* C33: whenever the final fragment of a peer's READVAR response contains an
\* offset variable with a numeric value, that value is offered to the adoption
\* rule and the Result reports the offset as known; this holds for every numeric
\* value, including an offset of exactly 0 reported by the only queried peer.
C33_NumericOffset ==
    [][(/\ rx' # rx
        /\ ~protocol.readstat
        /\ ~d.called
        /\ Reassembled(Received)
        /\ ~MoreBit(Received)
        /\ protocol.dataQueue = <<>>
        /\ NumericOffset(Received)) =>
          (/\ protocol'.offsetResult = STATE_OK
           /\ d'.called => /\ d'.outcome.kind = "result"
                           /\ d'.outcome.data.offsetResult = STATE_OK)]_vars

\* a datagram that either phase rejects as malformed: too short to decode, a
\* count above 468, or a sequence other than that of the outstanding request
Rejected(data) ==
    \/ Len(data) < 12
    \/ DeclaredCount(data) > 468
    \/ Sequence(data) # protocol.sequenceCounter

\* C34: each request sent arms exactly one timeout, and the arrival of any
\* datagram disarms the armed timeout before the datagram is validated: the
\* timeout armed for a request is cancelled in the step that receives a datagram
\* (a timeout found armed afterwards is the one of a request written in that
\* step), so a datagram rejected as malformed ends the session with a protocol
\* error, and a cancelled timeout never fires nor replaces that error.
C34_Disarmed ==
    /\ [](reactor.armed = Len(transport.written) /\ reactor.orphans = 0)
    /\ [][/\ Len(transport'.written) > Len(transport.written) =>
                /\ Len(transport'.written) = Len(transport.written) + 1
                /\ reactor'.timeoutCall = "active"
          /\ (rx' # rx /\ reactor.timeoutCall = "active") =>
                \/ reactor'.timeoutCall = "cancelled"
                \/ /\ reactor'.timeoutCall = "active"
                   /\ Len(transport'.written) = Len(transport.written) + 1
          /\ (rx' # rx /\ ~d.called /\ reactor.timeoutCall = "active"
                /\ Rejected(Received)) =>
                /\ d'.called
                /\ d'.outcome.kind = "error"
                /\ d'.outcome.msg = InvalidPacket
                /\ reactor'.timeoutCall = "cancelled"
                /\ transport'.written = transport.written
          /\ reactor.timeoutCall = "cancelled" => reactor'.timeoutCall # "called"
          /\ (d.called /\ d.outcome.msg = InvalidPacket) => d'.outcome = d.outcome]_vars

\* the READVAR request was answered by a two-byte datagram: two requests, two
\* timeouts armed, the second cancelled, the session ended by the protocol error
C34_Witness ==
    /\ rx = <<Ix(ReadstatTest), Ix(Short)>>
    /\ Len(transport.written) = 2
    /\ reactor.armed = 2
    /\ reactor.timeoutCall = "cancelled"
    /\ d.outcome.kind = "error"
    /\ d.outcome.msg = InvalidPacket

\* the request written last before the step
Outstanding == transport.written[Len(transport.written)]

\* C35: at most one request is outstanding at any time and peer queries are
\* strictly sequential: no READVAR is sent before the final READSTAT fragment has
\* been accepted; a step writes at most one request; a READVAR request (the next
\* peer's or the fallback retry) is written only in a step that receives a
\* datagram with the sequence of the request written before; the retry answers an
\* error-bit datagram and goes to the same peer; the next peer's READVAR follows a
\* datagram without the more bit, with the reassembly buffer empty, and goes to
\* a peer not queried before; never is a second timer armed beside an armed one.
C35_Sequential ==
    /\ [](reactor.orphans = 0 /\ (protocol.readstat => ReadvarRequests = <<>>))
    /\ [][Len(transport'.written) > Len(transport.written) =>
            /\ Len(transport'.written) = Len(transport.written) + 1
            /\ reactor'.timeoutCall = "active"
            /\ reactor'.armed = reactor.armed + 1
            /\ IF Written[2] = 1
               THEN transport.written = <<>> /\ rx' = rx
               ELSE /\ rx' # rx
                    /\ Sequence(Received) = Sequence(Outstanding)
                    /\ IF ErrorBit(Received)
                       THEN /\ ~protocol.readstat
                            /\ Association(Written) = Association(Outstanding)
                       ELSE /\ ~MoreBit(Received)
                            /\ protocol'.dataQueue = <<>>
                            /\ \A i \in 1..Len(ReadvarRequests) :
                                  Association(Written) # Association(ReadvarRequests[i])]_vars

\* the controller waits for a datagram: started, without outcome, port listening
Waiting ==
    /\ controller.started
    /\ ~d.called
    /\ controller.socket = "open"

\* C36: in every reachable non-terminal state in which the controller is waiting
\* for a datagram, a timeout is armed; this includes waiting for a further
\* fragment after a READSTAT or READVAR response fragment with more-fragments set
\* was accepted.
C36_WaitingArmed == Waiting => reactor.timeoutCall = "active"

\* C37: whenever a READVAR request is sent (the first request for a peer or the
\* fallback retry), the reassembly buffer and its byte counter are empty/zero,
\* including when an error-bit datagram arrives after a more-fragments fragment of
\* the same peer was buffered.
C37_EmptyBuffer ==
    [][(Len(transport'.written) > Len(transport.written) /\ Written[2] = 2) =>
          (protocol'.dataQueue = <<>> /\ protocol'.dataQueueCtr = 0)]_vars

\* the peers of the READSTAT response a session in the READVAR phase accepted
\* (the first datagram with sequence 1 it received: the servers of SpecFallback
\* answer READSTAT in one datagram) that have at least the clock select elected
QualifyingPeers ==
    LET readstats == {i \in 1..Len(rx) : Sequence(Datagrams[rx[i]]) = 1}
        accepted == CHOOSE i \in readstats : \A j \in readstats : i <= j
    IN  IF protocol.readstat \/ readstats = {} THEN {}
        ELSE Qualifying(TableOf(PairsOf(Datagrams[rx[accepted]])),
                        protocol.minPeerSource)

\* the variable a READVAR request names: what follows its 12-byte header, as
\* long as the count field says
Requested(b) == Take(Drop(b, 12), DeclaredCount(b))

\* C38: the "request all variables" fallback happens at most once per session:
\* requestedVariable changes only from "offset" to "" and never back, every
\* READVAR request written while it is "" names no variable, an error-bit
\* response received after the fallback is terminal, and the number of READVAR
\* requests sent is at most the number of qualifying peers plus one.
C38_FallbackOnce ==
    /\ [](Len(ReadvarRequests) <= Cardinality(QualifyingPeers) + 1)
    /\ [][/\ protocol'.getvar # protocol.getvar =>
                protocol.getvar = OffsetKey /\ protocol'.getvar = <<>>
          /\ (Len(transport'.written) > Len(transport.written) /\ Written[2] = 2) =>
                Requested(Written) = protocol'.getvar
          /\ (rx' # rx /\ ~protocol.readstat /\ ~d.called /\ Checked(Received)
                /\ ErrorBit(Received) /\ protocol.getvar = <<>>) =>
                /\ d'.called
                /\ d'.outcome.kind = "error"
                /\ transport'.written = transport.written]_vars

\* two peers qualified; the first request was answered with the error bit, the
\* retry with an offset, and the second peer was then asked for all variables:
\* three READVAR requests for two qualifying peers
C38_Witness ==
    /\ rx = <<Ix(ReadstatThree), Ix(ReadvarError), Ix(ReadvarTest)>>
    /\ Cardinality(QualifyingPeers) = 2
    /\ Len(ReadvarRequests) = 3
    /\ Requested(ReadvarRequests[1]) = OffsetKey
    /\ Requested(ReadvarRequests[2]) = <<>>
    /\ Requested(ReadvarRequests[3]) = <<>>
    /\ Association(ReadvarRequests[2]) = Association(ReadvarRequests[1])
    /\ Association(ReadvarRequests[3]) # Association(ReadvarRequests[2])
    /\ protocol.getvar = <<>>

\* C39: whenever the session has reached a terminal outcome (Result or error),
\* no request timeout remains armed; this holds for errors raised on a
\* connection-refused notification and on external cancellation as well as for
\* protocol errors and success.
C39_NoTimerLeft == d.called => reactor.timeoutCall # "active"

\* C40: a READVAR response that passes the size, sequence, error-bit and response
\* checks but declares count < 4 is handled like any other response: as a
\* non-final fragment it adds nothing to the buffer and nothing is sent; as a
\* final fragment it yields no offset and the controller moves on to the next
\* peer or Done; no unhandled failure arises.
C40_SmallCount ==
    [][(/\ rx' # rx
        /\ ~protocol.readstat
        /\ ~d.called
        /\ Checked(Received)
        /\ ~ErrorBit(Received)
        /\ ResponseBit(Received)
        /\ DeclaredCount(Received) < 4) =>
          /\ reactor'.unhandled = reactor.unhandled
          /\ protocol'.offset = protocol.offset
          /\ protocol'.offsetResult = protocol.offsetResult
          /\ IF MoreBit(Received)
             THEN /\ protocol'.dataQueue = protocol.dataQueue
                  /\ transport'.written = transport.written
                  /\ ~d'.called
             ELSE /\ protocol'.dataQueue = <<>>
                  /\ IF protocol.peersToCheck = EmptyDict
                     THEN d'.called /\ d'.outcome.kind = "result"
                     ELSE Len(transport'.written) = Len(transport.written) + 1]_vars

==========================================================================
